---------------------------- MODULE Spec2Model ----------------------------
(***************************************************************************)
(* A state-machine model of pypeul (src/pypeul.py): the IRC client's read  *)
(* loop, synchronous list retrieval, callback dispatch, raw sending and    *)
(* the user registry.                                                      *)
(*                                                                         *)
(* Text is modelled as sequences of characters, each character a string    *)
(* naming it ("a", ":", "CR", "LF", "SOH", "xFF" for the byte 0xFF).       *)
(***************************************************************************)
EXTENDS Integers, Sequences, FiniteSets, TLC

(***************************************************************************)
(* Bounds of the model                                                     *)
(***************************************************************************)
\* lines the socket delivers before the peer closes the connection
MaxReads == 3
\* worker threads whose steps are tracked
MaxThreads == 1
\* raw lines a worker thread writes
MaxSends == 1
\* registrations and unregistrations of handlers
MaxOps == 3
\* calls of joined() and left() the program makes on the Users it holds
MaxCalls == 1
\* connection attempts made by run() after a disconnection
MaxReconnects == 1

(***************************************************************************)
(* Characters and strings                                                  *)
(***************************************************************************)
SP == " "
CR == "CR"
LF == "LF"
SOH == "SOH"

\* the empty mapping
EmptyFn == [x \in {} |-> x]

Put(f, k, v) == [x \in (DOMAIN f) \cup {k} |-> IF x = k THEN v ELSE f[x]]

Drop(f, k) == [x \in (DOMAIN f) \ {k} |-> f[x]]

\* the value None where a text is expected (no text holds this character)
None == <<"None">>

\* bytes.lower() / str.upper() act on ASCII letters only
LowerChar(c) ==
  CASE c = "A" -> "a" [] c = "B" -> "b" [] c = "C" -> "c"
    [] c = "J" -> "j" [] c = "O" -> "o" [] c = "I" -> "i" [] c = "N" -> "n"
    [] c = "P" -> "p" [] c = "R" -> "r" [] c = "T" -> "t" [] c = "K" -> "k"
    [] c = "Q" -> "q" [] c = "U" -> "u" [] c = "M" -> "m" [] c = "D" -> "d"
    [] c = "E" -> "e" [] c = "G" -> "g" [] c = "S" -> "s" [] c = "V" -> "v"
    [] OTHER -> c

UpperChar(c) ==
  CASE c = "a" -> "A" [] c = "b" -> "B" [] c = "c" -> "C"
    [] c = "j" -> "J" [] c = "o" -> "O" [] c = "i" -> "I" [] c = "n" -> "N"
    [] c = "p" -> "P" [] c = "r" -> "R" [] c = "t" -> "T" [] c = "k" -> "K"
    [] c = "q" -> "Q" [] c = "u" -> "U" [] c = "m" -> "M" [] c = "d" -> "D"
    [] c = "e" -> "E" [] c = "g" -> "G" [] c = "s" -> "S" [] c = "v" -> "V"
    [] OTHER -> c

irc_lower(s) == [i \in 1..Len(s) |-> LowerChar(s[i])]

irc_equals(s1, s2) == irc_lower(s1) = irc_lower(s2)

upper(s) == [i \in 1..Len(s) |-> UpperChar(s[i])]

startswith(s, c) == Len(s) > 0 /\ s[1] = c

endswith(s, c) == Len(s) > 0 /\ s[Len(s)] = c

\* s[n:] of Python, n >= 0
From(s, n) == IF n >= Len(s) THEN <<>> ELSE SubSeq(s, n + 1, Len(s))

\* the characters of s
Chars(s) == {s[i] : i \in 1..Len(s)}

\* index of the first character of s that is in cs, from position i on, 0
\* when there is none
FindAny(s, cs, i) ==
  IF \A j \in i..Len(s) : s[j] \notin cs THEN 0
  ELSE CHOOSE j \in i..Len(s) : s[j] \in cs /\ \A k \in i..(j - 1) : s[k] \notin cs

\* index of the first occurrence of c in s from position i on, 0 when absent
Find(s, c, i) == FindAny(s, {c}, i)

\* bytes.strip(chars)
RECURSIVE lstrip(_, _)
lstrip(s, cs) == IF Len(s) > 0 /\ s[1] \in cs THEN lstrip(Tail(s), cs) ELSE s

RECURSIVE rstrip(_, _)
rstrip(s, cs) ==
  IF Len(s) > 0 /\ s[Len(s)] \in cs THEN rstrip(SubSeq(s, 1, Len(s) - 1), cs) ELSE s

strip(s, cs) == rstrip(lstrip(s, cs), cs)

\* bytes.split(sep): always at least one (possibly empty) token
RECURSIVE split(_, _)
split(s, sep) ==
  LET p == Find(s, sep, 1)
  IN  IF p = 0 THEN <<s>> ELSE <<SubSeq(s, 1, p - 1)>> \o split(From(s, p), sep)

\* sep.join(tokens)
RECURSIVE join(_, _)
join(toks, sep) ==
  IF Len(toks) = 0 THEN <<>>
  ELSE IF Len(toks) = 1 THEN toks[1]
  ELSE toks[1] \o sep \o join(Tail(toks), sep)

\* IRC.to_unicode: ASCII is kept; a byte that is neither ASCII nor UTF-8 is
\* decoded as iso-8859-15 (0xFF is y with diaeresis); never raises
to_unicode(tok) == [i \in 1..Len(tok) |-> IF tok[i] = "xFF" THEN "y:" ELSE tok[i]]


(***************************************************************************)
(* NormalizedDict / IrcDict: _map sends a folded key to the key as it was  *)
(* first stored, data sends that key to the value.                         *)
(***************************************************************************)
(***************************************************************************)
(* Tags: mIRC-formatted text. A Chunk is a text with its colors (the two   *)
(* digits of Tags.colors stand for the color's name, '' is <<>>) and its   *)
(* set of tags; a ChunkList is the sequence of its children.               *)
(***************************************************************************)
\* Tags.formats
formats == [reset |-> "x0F", uncolor |-> "x03", bold |-> "x02", underline |-> "x1F",
            reverse |-> "x16"]

format_names == DOMAIN formats

format_codes == {formats[n] : n \in format_names}

\* what Tags.parse and ChunkList.split_lines take off a chunk's tags
Transient == {"reset", "uncolor"}

\* Tags.format_name_by_code
format_name_by_code(code) == CHOOSE n \in format_names : formats[n] = code

Digits == <<"0", "1", "2", "3", "4", "5", "6", "7", "8", "9">>

\* int(digits) of one or two digits
int(digits) ==
  IF Len(digits) = 1 THEN Find(Digits, digits[1], 1) - 1
  ELSE 10 * (Find(Digits, digits[1], 1) - 1) + Find(Digits, digits[2], 1) - 1

\* Tags.colors[Tags.color_name_by_code(n)]: the two digits of the color n
color_code(n) == <<Digits[(n \div 10) + 1], Digits[(n % 10) + 1]>>

\* the digits (two at most) of text from position i on: \d{1,2}
digits_at(text, i) ==
  IF i > Len(text) \/ text[i] \notin Chars(Digits) THEN <<>>
  ELSE IF i + 1 > Len(text) \/ text[i + 1] \notin Chars(Digits) THEN <<text[i]>>
  ELSE <<text[i], text[i + 1]>>

\* Tags.RE_COLOR matched at text[i] = '\x03': (\d{1,2})?(?:,(\d{1,2})?)? after
\* it; len is the length of the match, fg and bg its groups (<<>>: None)
RE_COLOR_bg(text, i, fg, comma) ==
  [fg |-> fg,
   bg |-> IF comma THEN digits_at(text, i + 2 + Len(fg)) ELSE <<>>,
   len |-> 1 + Len(fg) + (IF comma THEN 1 + Len(digits_at(text, i + 2 + Len(fg))) ELSE 0)]

RE_COLOR(text, i) ==
  RE_COLOR_bg(text, i, digits_at(text, i + 1),
              i + 1 + Len(digits_at(text, i + 1)) <= Len(text)
                /\ text[i + 1 + Len(digits_at(text, i + 1))] = ",")

\* Tags.Chunk
Chunk(text) == [text |-> text, fgcolor |-> <<>>, bgcolor |-> <<>>, tags |-> {}]

\* lines 165-169 of Tags.parse: a format code after some text closes the
\* chunk and opens one with its colors and its lasting tags
parse_open(st, fmt) ==
  IF st.chunk.text # <<>>
  THEN [chunks |-> Append(st.chunks, st.chunk),
        chunk |-> [st.chunk EXCEPT !.text = <<>>, !.tags = @ \ Transient]]
  ELSE st

\* lines 171-174: reset
parse_reset(st, fmt) ==
  IF fmt = "reset"
  THEN [st EXCEPT !.chunk.fgcolor = <<>>, !.chunk.bgcolor = <<>>, !.chunk.tags = {}]
  ELSE st

\* lines 176-187: the colors of a color code m; exc: color_name_by_code raised
\* ValueError (no color has this number)
parse_color(st, m) ==
  IF m.fg # <<>>
  THEN IF int(m.fg) > 15 \/ (m.bg # <<>> /\ int(m.bg) > 15) THEN [exc |-> TRUE, st |-> st]
       ELSE [exc |-> FALSE,
             st |-> [st EXCEPT !.chunk.fgcolor = color_code(int(m.fg)),
                              !.chunk.bgcolor = IF m.bg # <<>> THEN color_code(int(m.bg)) ELSE @]]
  ELSE [exc |-> FALSE,
        st |-> [st EXCEPT !.chunk.fgcolor = <<>>, !.chunk.bgcolor = <<>>,
                         !.chunk.tags = @ \cup {"uncolor"}]]

\* lines 192-196: the tag is put, or taken off if the chunk has it
parse_toggle(st, fmt) ==
  [st EXCEPT !.chunk.tags = IF fmt \in @ THEN @ \ {fmt} ELSE @ \cup {fmt}]

\* the while loop of Tags.parse from text[i] on (the characters up to the next
\* format code are taken in one step); st is [chunks, chunk]
RECURSIVE parse_loop(_, _, _, _)
parse_loop(text, i, st, j) ==
  IF j = 0
  THEN [exc |-> FALSE,
        chunks |-> Append(st.chunks, [st.chunk EXCEPT !.text = @ \o From(text, i - 1)])]
  ELSE IF j > i
  THEN parse_loop(text, j, [st EXCEPT !.chunk.text = @ \o SubSeq(text, i, j - 1)], j)
  ELSE IF format_name_by_code(text[i]) = "uncolor"
  THEN IF parse_color(parse_open(st, "uncolor"), RE_COLOR(text, i)).exc
       THEN [exc |-> TRUE, chunks |-> <<>>]
       ELSE parse_loop(text, i + RE_COLOR(text, i).len,
                       parse_color(parse_open(st, "uncolor"), RE_COLOR(text, i)).st,
                       FindAny(text, format_codes, i + RE_COLOR(text, i).len))
  ELSE parse_loop(text, i + 1,
                  parse_toggle(parse_reset(parse_open(st, format_name_by_code(text[i])),
                                           format_name_by_code(text[i])),
                               format_name_by_code(text[i])),
                  FindAny(text, format_codes, i + 1))

\* Tags.parse(text): the children of the ChunkList; exc: it raised
Tags_parse(text) ==
  parse_loop(text, 1, [chunks |-> <<>>, chunk |-> Chunk(<<>>)], FindAny(text, format_codes, 1))

\* Chunk.copy with another text
copy(chunk, text) == [chunk EXCEPT !.text = text]

\* a split_words that would drop the space after each word
split_words_unspaced(chunk, words) == [i \in 1..Len(words) |-> copy(chunk, words[i])]

\* the words of one chunk in ChunkList.split_words: each but the last keeps
\* its space
split_words_chunk(chunk, words) ==
  [i \in 1..Len(words) |->
     copy(chunk, IF i = Len(words) THEN words[i] ELSE words[i] \o <<SP>>)]

\* ChunkList.split_words
RECURSIVE split_words(_)
split_words(children) ==
  IF children = <<>> THEN <<>>
  ELSE split_words_chunk(Head(children), split(Head(children).text, SP))
       \o split_words(Tail(children))

\* the lines of one chunk in ChunkList.split_lines: every line after the first
\* closes the current ChunkList and loses the tags reset and uncolor
split_lines_chunk(st, chunk, lines) ==
  IF Len(lines) = 1 THEN [st EXCEPT !.curr = Append(@, chunk)]
  ELSE [result |-> st.result \o <<Append(st.curr, copy(chunk, lines[1]))>>
                   \o [i \in 1..(Len(lines) - 2) |->
                         <<[copy(chunk, lines[i + 1]) EXCEPT !.tags = @ \ Transient]>>],
        curr |-> <<[copy(chunk, lines[Len(lines)]) EXCEPT !.tags = @ \ Transient]>>]

\* ChunkList.split_lines; st is [result, curr]
RECURSIVE split_lines_loop(_, _)
split_lines_loop(children, st) ==
  IF children = <<>> THEN Append(st.result, st.curr)
  ELSE split_lines_loop(Tail(children),
                        split_lines_chunk(st, Head(children), split(Head(children).text, LF)))

split_lines(children) == split_lines_loop(children, [result |-> <<>>, curr |-> <<>>])

\* the codes of the tags in ts, in the order a set of str is iterated in
\* (order: the format names in that order; it depends on the hash seed of the
\* process)
tag_codes(ts, order) ==
  [i \in 1..Cardinality(ts) |->
     formats[order[CHOOSE k \in 1..Len(order) :
                     /\ order[k] \in ts
                     /\ Cardinality({j \in 1..k : order[j] \in ts}) = i]]]

\* lines 344-355 of to_string: the color code of a chunk, after fg and bg
\* (colors[''] would raise KeyError for a chunk with a background and no
\* foreground: Tags.parse sets a background only along with a foreground)
color_codes(fg, bg, chunk) ==
  IF <<fg, bg>> = <<chunk.fgcolor, chunk.bgcolor>> THEN <<>>
  ELSE <<formats.uncolor>>
       \o (IF chunk.fgcolor # <<>> \/ chunk.bgcolor # <<>> THEN chunk.fgcolor ELSE <<>>)
       \o (IF chunk.bgcolor # <<>> /\ bg # chunk.bgcolor THEN <<",">> \o chunk.bgcolor ELSE <<>>)

\* lines 357-362: the two bold codes that keep a digit or a comma from being
\* read as a color, then the text
text_after(ret, text) ==
  ret \o (IF endswith(ret, formats.uncolor) /\ text # <<>>
             /\ (text[1] \in Chars(Digits) \/ text[1] = ",")
          THEN <<formats.bold, formats.bold>> ELSE <<>>)
      \o text

\* one chunk of to_string's loop; st is [fg, bg, tags, ret], diff is
\* tags ^ chunk.tags
to_string_chunk(st, chunk, diff, order) ==
  [fg |-> chunk.fgcolor, bg |-> chunk.bgcolor, tags |-> chunk.tags \ Transient,
   ret |-> text_after(st.ret \o tag_codes(diff, order)
                      \o (IF diff \cap Transient # {}
                          THEN color_codes(<<>>, <<>>, chunk)
                          ELSE color_codes(st.fg, st.bg, chunk)),
                      chunk.text)]

RECURSIVE to_string_loop(_, _, _)
to_string_loop(children, st, order) ==
  IF children = <<>> THEN st
  ELSE to_string_loop(Tail(children),
                      to_string_chunk(st, Head(children),
                                      (st.tags \ Head(children).tags)
                                        \cup (Head(children).tags \ st.tags),
                                      order),
                      order)

\* lines 368-372: the codes that close the colors and the tags
to_string_end(st, end, order) ==
  IF end
  THEN st.ret \o (IF st.fg # <<>> \/ st.bg # <<>> THEN <<formats.uncolor>> ELSE <<>>)
       \o tag_codes(st.tags \ Transient, order)
  ELSE st.ret

\* ChunkList.to_string(end)
to_string(children, end, order) ==
  to_string_end(to_string_loop(children, [fg |-> <<>>, bg |-> <<>>, tags |-> {}, ret |-> <<>>],
                               order),
                end, order)

IrcDict == [map |-> EmptyFn, data |-> EmptyFn]

NormalizedDict_contains(d, key) == irc_lower(key) \in DOMAIN d.map

\* raises KeyError when the key is absent: callers test NormalizedDict_contains
NormalizedDict_getitem(d, key) == d.data[d.map[irc_lower(key)]]

NormalizedDict_setitem(d, key, value) ==
  IF NormalizedDict_contains(d, key)
  THEN [d EXCEPT !.data = Put(d.data, d.map[irc_lower(key)], value)]
  ELSE [map |-> Put(d.map, irc_lower(key), key), data |-> Put(d.data, key, value)]

NormalizedDict_delitem(d, key) ==
  [map |-> Drop(d.map, irc_lower(key)),
   data |-> Drop(d.data, d.map[irc_lower(key)])]

rename_key(d, oldkey, newkey) ==
  NormalizedDict_setitem(NormalizedDict_delitem(d, oldkey), newkey,
                         NormalizedDict_getitem(d, oldkey))

(***************************************************************************)
(* Users.  R is the pair of the registry (IRC.users) and the heap of User  *)
(* objects; a User is named by its index in the heap, so that an object    *)
(* dropped from the registry still exists for whoever holds a reference.   *)
(***************************************************************************)
\* User.__init__
User(mask) ==
  [nick |-> mask.nick, ident |-> mask.ident, host |-> mask.host,
   channels |-> IrcDict, deleted |-> FALSE,
   \* set by IRC.ident on myself only (lines 793-794)
   realname |-> None, password |-> None]

\* no origin: umask is None
NoMask == [some |-> FALSE, nick |-> <<>>, ident |-> <<>>, host |-> <<>>, user |-> 0]

\* UserMask.maskRegex, ([^!]+)!([^@]+)@(.+) matched at the start of the mask:
\* p and q are the places of the '!' and of the '@' that follows it
maskRegex_groups(mask, p, q) ==
  IF p >= 2 /\ q >= p + 2 /\ Len(mask) >= q + 1
  THEN [some |-> TRUE, nick |-> SubSeq(mask, 1, p - 1),
        ident |-> SubSeq(mask, p + 1, q - 1), host |-> From(mask, q)]
  ELSE [some |-> TRUE, nick |-> mask, ident |-> <<>>, host |-> <<>>]

maskRegex_at(mask, p) ==
  maskRegex_groups(mask, p, IF p = 0 THEN 0 ELSE Find(mask, "@", p + 1))

\* lines 1203-1208: the nick, ident and host of the mask
maskRegex(mask) == maskRegex_at(mask, Find(mask, "!", 1))

\* a resolution that would take the ident of every mask that has one
UserMask_overwrites(R, um, u) ==
  [R  |-> [R EXCEPT
             !.heap[u].host  = IF um.host # <<>> THEN um.host ELSE @,
             !.heap[u].ident = IF um.ident # <<>> THEN um.ident ELSE @],
   um |-> um @@ [user |-> u]]

\* lines 1211-1216: the User exists; its host follows the mask's, and its
\* ident is filled in when it had none
UserMask_known(R, um, u) ==
  [R  |-> [R EXCEPT
             !.heap[u].host  = IF um.host # <<>> THEN um.host ELSE @,
             !.heap[u].ident = IF um.ident # <<>> /\ @ = <<>> THEN um.ident ELSE @],
   um |-> um @@ [user |-> u]]

\* lines 1218-1219: a User is created and registered
UserMask_new(R, um, u) ==
  [R  |-> [users |-> NormalizedDict_setitem(R.users, um.nick, u),
           heap  |-> Append(R.heap, User(um))],
   um |-> um @@ [user |-> u]]

UserMask_resolve(R, um) ==
  IF NormalizedDict_contains(R.users, um.nick)
  THEN UserMask_known(R, um, NormalizedDict_getitem(R.users, um.nick))
  ELSE UserMask_new(R, um, Len(R.heap) + 1)

\* UserMask.__init__: the mask's fields and the User it resolves to, with the
\* registry and heap as it leaves them
UserMask(R, mask) == UserMask_resolve(R, maskRegex(mask))

is_in(R, u, channel) == NormalizedDict_contains(R.heap[u].channels, channel)

\* a joined() that would not look at self.deleted
joined_unchecked(R, u, channel) ==
  IF NormalizedDict_contains(R.heap[u].channels, channel) THEN R
  ELSE [R EXCEPT !.heap[u].channels = NormalizedDict_setitem(@, channel, {})]

\* a joined() that would not look at the membership
joined_again(R, u, channel) ==
  IF R.heap[u].deleted THEN R
  ELSE [R EXCEPT !.heap[u].channels = NormalizedDict_setitem(@, channel, {})]

\* User.joined
joined(R, u, channel) ==
  IF R.heap[u].deleted THEN R
  ELSE IF is_in(R, u, channel) THEN R
  ELSE [R EXCEPT !.heap[u].channels = NormalizedDict_setitem(@, channel, {})]

\* User.left
left(R, u, channel) ==
  IF R.heap[u].deleted THEN R
  ELSE IF ~is_in(R, u, channel) THEN R
  ELSE [R EXCEPT !.heap[u].channels = NormalizedDict_delitem(@, channel)]

\* line 1276: del self.irc.users[self.nick]; exc: it raised KeyError
delete_entry(R, nick) ==
  IF NormalizedDict_contains(R.users, nick)
  THEN [exc |-> FALSE, R |-> [R EXCEPT !.users = NormalizedDict_delitem(@, nick)]]
  ELSE [exc |-> TRUE, R |-> R]

\* User.delete
delete(R, u) ==
  delete_entry([R EXCEPT !.heap[u].channels = IrcDict, !.heap[u].deleted = TRUE],
               R.heap[u].nick)

(***************************************************************************)
(* IRC._parse_message                                                      *)
(***************************************************************************)
\* the numeric replies the model's lines use, and the names that
\* numeric_events gives them
Numeric ==
  [ c001 |-> <<"0", "0", "1">>,
    c005 |-> <<"0", "0", "5">>,
    c353 |-> <<"3", "5", "3">>,
    c367 |-> <<"3", "6", "7">>,
    c368 |-> <<"3", "6", "8">>,
    welcome |-> <<"w", "e", "l", "c", "o", "m", "e">>,
    featurelist |-> <<"f", "e", "a", "t", "u", "r", "e", "l", "i", "s", "t">>,
    namreply |-> <<"n", "a", "m", "r", "e", "p", "l", "y">>,
    banlist |-> <<"b", "a", "n", "l", "i", "s", "t">>,
    endofbanlist |-> <<"e", "n", "d", "o", "f", "b", "a", "n", "l", "i", "s", "t">> ]
endof == <<"e", "n", "d", "o", "f">>

\* the entries of the table of numeric replies that the model's lines use
numeric_events ==
  (Numeric.c001 :> Numeric.welcome) @@ (Numeric.c005 :> Numeric.featurelist) @@ (Numeric.c353 :> Numeric.namreply)
    @@ (Numeric.c367 :> Numeric.banlist) @@ (Numeric.c368 :> Numeric.endofbanlist)

\* the loop over prms of _parse_message
RECURSIVE ParseParams(_, _, _)
ParseParams(prms, params, last) ==
  IF prms = <<>> THEN params
  ELSE LET prm == Head(prms)
       IN  IF startswith(prm, ":") /\ ~last
           THEN ParseParams(Tail(prms), Append(params, From(prm, 1)), TRUE)
           ELSE IF last
           THEN ParseParams(Tail(prms),
                            [params EXCEPT ![Len(params)] = @ \o <<SP>> \o prm], TRUE)
           ELSE ParseParams(Tail(prms), Append(params, prm), FALSE)

\* lines 1030-1055: the command and the parameters, from the words that
\* follow the origin
parse_rest(m, rest) ==
  IF rest = <<>>
  THEN [exc |-> TRUE, R |-> m.R, umask |-> m.um, cmd |-> <<>>, params |-> <<>>]
  ELSE [exc |-> FALSE, R |-> m.R, umask |-> m.um,
        cmd |-> IF rest[1] \in DOMAIN numeric_events
                THEN numeric_events[rest[1]] ELSE upper(rest[1]),
        params |-> ParseParams(Tail(rest), <<>>, FALSE)]

\* lines 1024-1028: the origin, when the first word begins with ':'
parse_text(R, text) ==
  IF startswith(text[1], ":")
  THEN parse_rest(UserMask(R, From(text[1], 1)), Tail(text))
  ELSE parse_rest([R |-> R, um |-> NoMask], text)

\* lines 1016-1017: the words of the line, decoded
parse_words(R, raw) == parse_text(R, [i \in 1..Len(raw) |-> to_unicode(raw[i])])

\* IRC._parse_message; exc: text[0] raised IndexError (a line that is an
\* origin and nothing else)
parse_message(R, bytes) == parse_words(R, split(strip(bytes, {CR, LF}), SP))

(***************************************************************************)
(* ServerConfig: the derived views are recomputed from info on every use   *)
(***************************************************************************)
\* the names of the features of RPL_ISUPPORT that ServerConfig reads
Feature ==
  [ CHANMODES |-> <<"C", "H", "A", "N", "M", "O", "D", "E", "S">>,
    CHANTYPES |-> <<"C", "H", "A", "N", "T", "Y", "P", "E", "S">>,
    PREFIX |-> <<"P", "R", "E", "F", "I", "X">>,
    MAXLIST |-> <<"M", "A", "X", "L", "I", "S", "T">>,
    MODES |-> <<"M", "O", "D", "E", "S">>,
    NAMESX |-> <<"N", "A", "M", "E", "S", "X">> ]

\* the value True stored for a feature token without '='
TrueValue == <<"True">>

\* ServerConfig.__init__
ServerConfig ==
  (Feature.CHANMODES :> <<"b", ",", "k", ",", "l", ",", "p", "s", "i", "t", "n", "m">>)
    @@ (Feature.CHANTYPES :> <<"#">>)
    @@ (Feature.PREFIX :> <<"(", "o", "v", ")", "@", "+">>)
    @@ (Feature.MAXLIST :> <<"b", "e", "I", ":", "1", "0">>)
    @@ (Feature.MODES :> <<"3">>)

\* ServerConfig.max_modes, int(self.info['MODES']): int(True) is 1; exc: the
\* value is no number (ValueError)
max_modes(info) ==
  IF info[Feature.MODES] = TrueValue THEN [exc |-> FALSE, n |-> 1]
  ELSE IF Len(info[Feature.MODES]) \in {1, 2} /\ Chars(info[Feature.MODES]) \subseteq Chars(Digits)
  THEN [exc |-> FALSE, n |-> int(info[Feature.MODES])]
  ELSE [exc |-> TRUE, n |-> 0]

chan_prefixes(info) == Chars(info[Feature.CHANTYPES])

chan_modes(info) ==
  LET parts == split(info[Feature.CHANMODES], ",")
  IN  [i \in 1..Len(parts) |-> Chars(parts[i])]

\* the keys of ServerConfig.max_lists_entries
max_lists_entries(info) ==
  LET toks == split(info[Feature.MAXLIST], ",")
  IN  UNION {Chars(split(toks[i], ":")[1]) : i \in 1..Len(toks)}

list_modes(info) == max_lists_entries(info) \cup chan_modes(info)[1]

\* ServerConfig.prefixes: the pairs (mode, prefix) in order
prefixes(info) ==
  LET parts == split(info[Feature.PREFIX], ")")
      lft == From(parts[1], 1)
      rgt == parts[2]
      n   == IF Len(lft) < Len(rgt) THEN Len(lft) ELSE Len(rgt)
  IN  [i \in 1..n |-> <<lft[i], rgt[i]>>]

prefixes_values(info) == {prefixes(info)[i][2] : i \in 1..Len(prefixes(info))}

prefixes_modes(info) == {prefixes(info)[i][1] : i \in 1..Len(prefixes(info))}

mode_for_prefix(info, prefix) ==
  LET ps == prefixes(info)
      i  == CHOOSE i \in 1..Len(ps) :
              ps[i][2] = prefix /\ \A j \in 1..(i - 1) : ps[j][2] # prefix
  IN  ps[i][1]

param_modes(info) == chan_modes(info)[2] \cup prefixes_modes(info)

param_set_modes(info) == chan_modes(info)[3]

is_channel(info, text) == Len(text) > 0 /\ text[1] \in chan_prefixes(info)

(***************************************************************************)
(* Outbound framing                                                        *)
(***************************************************************************)
\* IRC._get_prefix; exc: ValueError
RECURSIVE get_prefix(_, _)
get_prefix(params, prefix) ==
  IF params = <<>>
  THEN [exc |-> FALSE,
        prefix |-> IF prefix = <<>> THEN <<>> ELSE SubSeq(prefix, 1, Len(prefix) - 1)]
  ELSE LET prm == Head(params)
       IN  IF prm = <<>> THEN get_prefix(Tail(params), prefix)
           ELSE IF LF \in Chars(prm) \/ CR \in Chars(prm) \/ SP \in Chars(prm)
                   \/ prm[1] = ":"
           THEN [exc |-> TRUE, prefix |-> <<>>]
           ELSE get_prefix(Tail(params), prefix \o prm \o <<SP>>)

\* the line IRC.send hands to raw(); exc: _get_prefix raised
send(params, last) ==
  LET p      == get_prefix(params, <<>>)
      pieces == split(last, LF)
      clean  == join([i \in 1..Len(pieces) |-> strip(pieces[i], {CR})], <<SP>>)
  IN  IF p.exc THEN [exc |-> TRUE, line |-> <<>>]
      ELSE [exc |-> FALSE,
            line |-> IF clean # <<>> THEN p.prefix \o <<SP, ":">> \o clean ELSE p.prefix]

(***************************************************************************)
(* IRC._process_message                                                    *)
(***************************************************************************)
\* the commands that _process_message and the outbound methods name
Cmd ==
  [ JOIN |-> <<"J", "O", "I", "N">>,
    PART |-> <<"P", "A", "R", "T">>,
    KICK |-> <<"K", "I", "C", "K">>,
    QUIT |-> <<"Q", "U", "I", "T">>,
    PING |-> <<"P", "I", "N", "G">>,
    PONG |-> <<"P", "O", "N", "G">>,
    NICK |-> <<"N", "I", "C", "K">>,
    MODE |-> <<"M", "O", "D", "E">>,
    PRIVMSG |-> <<"P", "R", "I", "V", "M", "S", "G">>,
    NOTICE |-> <<"N", "O", "T", "I", "C", "E">>,
    CTCP_ACTION |-> <<"A", "C", "T", "I", "O", "N">>,
    PROTOCTL |-> <<"P", "R", "O", "T", "O", "C", "T", "L">>,
    USER |-> <<"U", "S", "E", "R">>,
    PASS |-> <<"P", "A", "S", "S">> ]
\* the names of the callbacks, and the parts of those that are computed
Event ==
  [ on_pre_server_X |-> <<"o", "n", "_", "p", "r", "e", "_", "s", "e", "r", "v", "e", "r", "_">>,
    on_server_X |-> <<"o", "n", "_", "s", "e", "r", "v", "e", "r", "_">>,
    on_self_X |-> <<"o", "n", "_", "s", "e", "l", "f", "_">>,
    on_ready |-> <<"o", "n", "_", "r", "e", "a", "d", "y">>,
    on_banlist_received |-> <<"o", "n", "_", "b", "a", "n", "l", "i", "s", "t", "_", "r", "e", "c", "e", "i", "v", "e", "d">>,
    on_action |-> <<"o", "n", "_", "a", "c", "t", "i", "o", "n">>,
    on_ctcp_request |-> <<"o", "n", "_", "c", "t", "c", "p", "_", "r", "e", "q", "u", "e", "s", "t">>,
    on_ctcp_X |-> <<"o", "n", "_", "c", "t", "c", "p", "_">>,
    sfx_request |-> <<"_", "r", "e", "q", "u", "e", "s", "t">>,
    sfx_reply |-> <<"_", "r", "e", "p", "l", "y">>,
    on_message |-> <<"o", "n", "_", "m", "e", "s", "s", "a", "g", "e">>,
    on_channel_message |-> <<"o", "n", "_", "c", "h", "a", "n", "n", "e", "l", "_", "m", "e", "s", "s", "a", "g", "e">>,
    on_private_message |-> <<"o", "n", "_", "p", "r", "i", "v", "a", "t", "e", "_", "m", "e", "s", "s", "a", "g", "e">>,
    on_ctcp_reply |-> <<"o", "n", "_", "c", "t", "c", "p", "_", "r", "e", "p", "l", "y">>,
    on_notice |-> <<"o", "n", "_", "n", "o", "t", "i", "c", "e">>,
    on_channel_notice |-> <<"o", "n", "_", "c", "h", "a", "n", "n", "e", "l", "_", "n", "o", "t", "i", "c", "e">>,
    on_private_notice |-> <<"o", "n", "_", "p", "r", "i", "v", "a", "t", "e", "_", "n", "o", "t", "i", "c", "e">> ]
strNone == <<"N", "o", "n", "e">>

\* str.split(): on runs of whitespace, no empty token
split_ws(s) ==
  LET t == [i \in 1..Len(s) |-> IF s[i] \in {CR, LF} THEN SP ELSE s[i]]
  IN  SelectSeq(split(t, SP), LAMBDA tok : tok # <<>>)

\* IRC.is_me: myself is a User of the heap, or 0 for None
is_me(W, text) ==
  irc_equals(text, IF W.myself = 0 THEN strNone ELSE W.R.heap[W.myself].nick)

\* IRC.parse_modes; exc: ValueError (no sign) or IndexError (targets[i])
RECURSIVE parse_modes_loop(_, _, _, _, _, _)
parse_modes_loop(info, modestr, targets, last, i, out) ==
  IF modestr = <<>> THEN [exc |-> FALSE, out |-> out]
  ELSE LET char == Head(modestr)
           pm   == param_modes(info) \cup list_modes(info)
                     \cup (IF last = "+" THEN param_set_modes(info) ELSE {})
       IN  IF char \in {"+", "-"}
           THEN parse_modes_loop(info, Tail(modestr), targets, char, i, out)
           ELSE IF last = ""
           THEN [exc |-> TRUE, out |-> <<>>]
           ELSE IF char \in pm
           THEN IF i > Len(targets)
                THEN [exc |-> TRUE, out |-> <<>>]
                ELSE parse_modes_loop(info, Tail(modestr), targets, last, i + 1,
                       Append(out, [add |-> last = "+", mode |-> char, value |-> targets[i]]))
           ELSE parse_modes_loop(info, Tail(modestr), targets, last, i,
                  Append(out, [add |-> last = "+", mode |-> char, value |-> None]))

parse_modes(info, modestr, targets) == parse_modes_loop(info, modestr, targets, "", 1, <<>>)

\* lines 1181-1186: user.modes_in(chan) and the change of the set it returns;
\* exc: modes_in raised KeyError
mode_change(R, u, chan, c) ==
  IF ~is_in(R, u, chan) THEN [exc |-> TRUE, R |-> R]
  ELSE [exc |-> FALSE,
        R |-> [R EXCEPT !.heap[u].channels =
                 NormalizedDict_setitem(@, chan,
                   IF c.add THEN NormalizedDict_getitem(@, chan) \cup {c.mode}
                   ELSE NormalizedDict_getitem(@, chan) \ {c.mode})]]

\* line 1180: UserMask(self, value).user
mode_target(m, chan, c) == mode_change(m.R, m.um.user, chan, c)

\* lines 1177-1186: one change of the MODE branch
mode_step(R, info, chan, c) ==
  IF c.mode \in (prefixes_modes(info) \cup (list_modes(info) \ max_lists_entries(info)))
  THEN mode_target(UserMask(R, c.value), chan, c)
  ELSE [exc |-> FALSE, R |-> R]

\* the loop of the MODE branch, left at the first exception
RECURSIVE mode_loop(_, _, _, _)
mode_loop(r, info, chan, changes) ==
  IF changes = <<>> \/ r.exc THEN r
  ELSE mode_loop(mode_step(r.R, info, chan, Head(changes)), info, chan, Tail(changes))

\* lines 1122-1123: user.joined(channel); user.channels[channel] = set(modes)
namreply_user(R, u, channel, modes) ==
  [joined(R, u, channel) EXCEPT !.heap[u].channels =
     NormalizedDict_setitem(@, channel, modes)]

namreply_mask(m, channel, modes) == namreply_user(m.R, m.um.user, channel, modes)

\* lines 1117-1121: at is the places of raw_nick that hold a prefix
namreply_nick(R, info, channel, raw_nick, at) ==
  namreply_mask(UserMask(R, From(raw_nick, Cardinality(at))), channel,
                {mode_for_prefix(info, raw_nick[i]) : i \in at})

\* the loop of the namreply branch
RECURSIVE namreply_loop(_, _, _, _)
namreply_loop(R, info, channel, nicks) ==
  IF nicks = <<>> THEN R
  ELSE namreply_loop(
         namreply_nick(R, info, channel, Head(nicks),
           {i \in 1..Len(Head(nicks)) : Head(nicks)[i] \in prefixes_values(info)}),
         info, channel, Tail(nicks))

\* the loop of the featurelist branch: info and the lines sent
RECURSIVE featurelist_loop(_, _, _)
featurelist_loop(info, sends, prms) ==
  IF prms = <<>> THEN [info |-> info, sends |-> sends]
  ELSE LET param == Head(prms)
           parts == split(param, "=")
       IN  IF Len(parts) = 2
           THEN featurelist_loop(Put(info, parts[1], parts[2]), sends, Tail(prms))
           ELSE featurelist_loop(Put(info, param, TrueValue),
                  IF param = Feature.NAMESX
                  THEN Append(sends, send(<<Cmd.PROTOCTL, Feature.NAMESX>>, <<>>).line)
                  ELSE sends,
                  Tail(prms))

\* a CTCP text: the verb and the value of \x01VERB value\x01
ctcp_verb(name, pos) == IF pos > 0 THEN SubSeq(name, 1, pos - 1) ELSE name

ctcp_inner(name) == ctcp_verb(name, Find(name, SP, 1))

ctcp_name(text) ==
  ctcp_inner(IF Len(text) <= 2 THEN <<>> ELSE SubSeq(text, 2, Len(text) - 1))

is_ctcp(text) == startswith(text, SOH) /\ endswith(text, SOH)

\* W is the client's state a message can change: R (users and heap), bans,
\* info (serverconf.info) and myself.  The result of a part of
\* _process_message is exc (an exception left it), W as it leaves it, the
\* lines it sent and the names of the callbacks it dispatched, in order.
Done(W, sends, cbs) == [exc |-> FALSE, W |-> W, sends |-> sends, cbs |-> cbs]

Raised(W, sends, cbs) == [exc |-> TRUE, W |-> W, sends |-> sends, cbs |-> cbs]

\* the result of a part of _process_message that ends as r does, r being
\* [exc, R]
Ended(W, r, sends, cbs) ==
  [exc |-> r.exc, W |-> [W EXCEPT !.R = r.R], sends |-> sends, cbs |-> cbs]

\* lines 1066-1069: target.user.joined(chan) or target.user.left(chan); exc:
\* the target is None (the line had no origin)
pre_target(W, cmd, chan, t, cbs) ==
  IF ~t.um.some THEN Raised(W, <<>>, cbs)
  ELSE IF cmd = Cmd.JOIN
  THEN Done([W EXCEPT !.R = joined(t.R, t.um.user, chan)], <<>>, cbs)
  ELSE Done([W EXCEPT !.R = left(t.R, t.um.user, chan)], <<>>, cbs)

\* lines 1061-1069; exc: params[0] or params[1] raised IndexError
pre_membership(W, msg, cbs) ==
  IF Len(msg.params) < 1 THEN Raised(W, <<>>, cbs)
  ELSE IF msg.cmd = Cmd.KICK
  THEN IF Len(msg.params) < 2 THEN Raised(W, <<>>, cbs)
       ELSE pre_target(W, msg.cmd, msg.params[1], UserMask(W.R, msg.params[2]), cbs)
  ELSE pre_target(W, msg.cmd, msg.params[1], [R |-> W.R, um |-> msg.umask], cbs)

\* lines 1060-1071: what precedes the on_server_<command> callback
process_pre(W, msg) ==
  IF msg.cmd \in {Cmd.JOIN, Cmd.PART, Cmd.KICK}
  THEN pre_membership(W, msg, <<Event.on_pre_server_X \o irc_lower(msg.cmd)>>)
  ELSE IF msg.cmd = Cmd.QUIT
  THEN IF ~msg.umask.some THEN Raised(W, <<>>, <<>>)
       ELSE Ended(W, delete(W.R, msg.umask.user), <<>>, <<>>)
  ELSE Done(W, <<>>, <<>>)

ctcp_callbacks(isPrivmsg, name) ==
  IF isPrivmsg /\ name = Cmd.CTCP_ACTION THEN <<Event.on_action>>
  ELSE <<IF isPrivmsg THEN Event.on_ctcp_request ELSE Event.on_ctcp_reply,
         Event.on_ctcp_X \o irc_lower(name) \o (IF isPrivmsg THEN Event.sfx_request ELSE Event.sfx_reply)>>

\* the callbacks of a PRIVMSG (lines 1126-1147) or of a NOTICE (lines
\* 1150-1168)
message_callbacks(W, params, isPrivmsg) ==
  IF is_ctcp(params[2])
  THEN ctcp_callbacks(isPrivmsg, ctcp_name(params[2]))
  ELSE <<IF isPrivmsg THEN Event.on_message ELSE Event.on_notice>>
         \o (IF is_channel(W.info, params[1])
             THEN <<IF isPrivmsg THEN Event.on_channel_message ELSE Event.on_channel_notice>>
             ELSE IF is_me(W, params[1])
             THEN <<IF isPrivmsg THEN Event.on_private_message ELSE Event.on_private_notice>>
             ELSE <<>>)

\* lines 1079-1081; exc: rename_key raised KeyError
post_nick(W, u, oldnick, newnick) ==
  IF ~NormalizedDict_contains(W.R.users, oldnick) THEN Raised(W, <<>>, <<>>)
  ELSE Done([W EXCEPT !.R.users = rename_key(@, oldnick, newnick),
                      !.R.heap[u].nick = newnick],
            <<>>, <<>>)

\* lines 1087-1099
post_featurelist(W, f) == Done([W EXCEPT !.info = f.info], f.sends, <<>>)

\* lines 1102-1107
post_banlist(W, chan, entry) ==
  Done([W EXCEPT !.bans =
          NormalizedDict_setitem(@, chan,
            Append(IF NormalizedDict_contains(@, chan)
                   THEN NormalizedDict_getitem(@, chan) ELSE <<>>, entry))],
       <<>>, <<>>)

\* lines 1176-1186; exc: parse_modes raised, or modes_in did
post_mode(W, chan, pm) ==
  IF pm.exc THEN Raised(W, <<>>, <<>>)
  ELSE Ended(W, mode_loop([exc |-> FALSE, R |-> W.R], W.info, chan, pm.out), <<>>, <<>>)

\* lines 1075-1189: what follows the on_server_<command> callback
process_post(W, msg) ==
  IF msg.cmd = Cmd.PING
  THEN IF Len(msg.params) < 1 THEN Raised(W, <<>>, <<>>)
       ELSE Done(W, <<send(<<Cmd.PONG>>, msg.params[1]).line>>, <<>>)
  ELSE IF msg.cmd = Cmd.NICK /\ msg.umask.some
  THEN IF Len(msg.params) < 1 THEN Raised(W, <<>>, <<>>)
       ELSE post_nick(W, msg.umask.user, W.R.heap[msg.umask.user].nick, msg.params[1])
  ELSE IF msg.cmd = Numeric.welcome THEN Done(W, <<>>, <<Event.on_ready>>)
  ELSE IF msg.cmd = Numeric.featurelist
  THEN post_featurelist(W, featurelist_loop(W.info, <<>>, From(msg.params, 1)))
  ELSE IF msg.cmd = Numeric.banlist
  THEN IF Len(msg.params) < 2 THEN Raised(W, <<>>, <<>>)
       ELSE post_banlist(W, msg.params[2], From(msg.params, 2))
  ELSE IF msg.cmd = Numeric.endofbanlist
  THEN IF Len(msg.params) < 2 \/ ~NormalizedDict_contains(W.bans, msg.params[2])
       THEN Raised(W, <<>>, <<>>)
       ELSE Done(W, <<>>, <<Event.on_banlist_received>>)
  ELSE IF msg.cmd = Numeric.namreply
  THEN IF Len(msg.params) < 4 THEN Raised(W, <<>>, <<>>)
       ELSE Done([W EXCEPT !.R =
                    namreply_loop(@, W.info, msg.params[3], split_ws(msg.params[4]))],
                 <<>>, <<>>)
  ELSE IF msg.cmd = Cmd.PRIVMSG
  THEN IF Len(msg.params) < 2 THEN Raised(W, <<>>, <<>>)
       ELSE Done(W, <<>>, message_callbacks(W, msg.params, TRUE))
  ELSE IF msg.cmd = Cmd.NOTICE /\ msg.umask.some
  THEN IF Len(msg.params) < 2 THEN Raised(W, <<>>, <<>>)
       ELSE Done(W, <<>>, message_callbacks(W, msg.params, FALSE))
  ELSE IF msg.cmd = Cmd.MODE /\ msg.umask.some /\ Len(msg.params) > 2
          /\ is_channel(W.info, msg.params[1])
  THEN post_mode(W, msg.params[1], parse_modes(W.info, msg.params[2], From(msg.params, 2)))
  ELSE IF msg.umask.some /\ is_me(W, msg.umask.nick)
  THEN Done(W, <<>>, <<Event.on_self_X \o irc_lower(msg.cmd)>>)
  ELSE Done(W, <<>>, <<>>)

(***************************************************************************)
(* The state                                                               *)
(***************************************************************************)
VARIABLES
  \* the IRC object (IRC.__init__, IRC.connect)
  thread_callbacks, connected, enabled, bans, users, myself, serverconf,
  handlers, send_lock, waiting_queue, reconnect_obj, sk,
  \* the User objects ever created
  heap,
  \* the socket: the bytes written to it, the number of lines it has delivered
  wire, nread,
  \* the thread that calls run(): where it is, the index of run_loop's for
  \* loop, the message _process_message is working on, the instances
  \* _callback has still to visit, the locals of get_list
  pc, ri, cur, pending, glist,
  \* the worker threads started for threaded callbacks
  threads,
  \* what the program did besides run() (the handlers it registered and
  \* unregistered, the calls it made on Users), the reconnections run() tried
  ops, attempts,
  \* history: the lines handed to _process_message, the instances whose
  \* callback was invoked for the current message and what the program had
  \* done when its dispatch began, the lines handed to raw(), the lines
  \* get_list read without consuming them, the last result of
  \* get_raw_message in run_loop, the lines during which a synchronous
  \* callback raised
  dispatched, calls, snapshot, rawlog, drained, lastRead, raised

ircVars == <<thread_callbacks, connected, enabled, bans, users, myself, serverconf,
             handlers, send_lock, waiting_queue, reconnect_obj, sk, heap>>

envVars == <<wire, nread>>

mainVars == <<pc, ri, cur, pending, glist>>

histVars == <<dispatched, calls, snapshot, rawlog, drained, lastRead, raised>>

vars == <<ircVars, envVars, mainVars, threads, ops, attempts, histVars>>

\* a line read from the socket, numbered in the order of reading
Entry(n, txt) == [n |-> n, txt |-> txt]

\* what get_raw_message returns at the end of the stream or on an IOError
NoneEntry == [n |-> 0, txt |-> None]

CRLF == <<CR, LF>>

W == [R |-> [users |-> users, heap |-> heap], bans |-> bans,
      info |-> serverconf, myself |-> myself]

\* the main thread
Main == 0

(***************************************************************************)
(* Handlers: the objects a program registers in IRC.handlers, and the IRC  *)
(* subclass itself.  What a callback does is the program's choice; the     *)
(* model's callbacks are the on_server_<command> methods.                  *)
(***************************************************************************)
Self == "self"

\* the handlers of the model: h_ok returns, h_raise raises, h_list calls
\* get_banlist, h_none has no callback at all; t_hang, t_send and t_list are
\* marked @threaded: t_hang never returns, t_send sends a line, t_list calls
\* get_banlist, t_multi calls send_multi

\* the decorator threaded() marks the function
threaded(inst) == inst \in {"t_hang", "t_send", "t_list", "t_multi"}

\* getattr(inst, name, None) is a callable
has_callback(inst, name) ==
  /\ inst # "h_none"
  /\ Len(name) >= Len(Event.on_server_X)
  /\ SubSeq(name, 1, Len(Event.on_server_X)) = Event.on_server_X

\* what the callback of an instance does
body(inst) ==
  CASE inst \in {"h_ok", "t_hang"} -> "return"
    [] inst = "h_raise" -> "raise"
    [] inst \in {"h_list", "t_list"} -> "get_banlist"
    [] inst = "t_send" -> "send"
    [] inst = "t_multi" -> "send_multi"
    [] OTHER -> "return"

\* the channel whose ban list the callbacks ask for
ListTarget == <<"#", "c">>

\* the line a callback sends: send('JOIN', '#c')
WorkerLine == send(<<Cmd.JOIN, ListTarget>>, <<>>).line

\* a dict keeps its keys in insertion order: the pairs <<key, value>>
dict_setitem(d, k, v) ==
  IF \E i \in 1..Len(d) : d[i][1] = k
  THEN [i \in 1..Len(d) |-> IF d[i][1] = k THEN <<k, v>> ELSE d[i]]
  ELSE Append(d, <<k, v>>)

dict_delitem(d, k) == SelectSeq(d, LAMBDA e : e[1] # k)

dict_values(d) == [i \in 1..Len(d) |-> d[i][2]]

\* a _callback that would visit the handlers before the client itself
handlers_then_self(hs) == dict_values(hs) \o <<Self>>

\* line 1000: the instances _callback visits, in order
callback_order(hs) == <<Self>> \o dict_values(hs)

\* line 1008: whether the callback is run on a thread of its own
runs_threaded(tc, inst) == tc \/ threaded(inst)

\* a run_loop whose try statements would let an exception raised by a
\* callback through
catches_outside_callbacks(kind) == kind # "callback"

\* lines 597-601 and 608-611: the bare except of run_loop catches whatever
\* _process_message raises; kind is where the exception arose
run_loop_catches(kind) == TRUE

\* a raw() that would write without waiting for the lock
lock_ignored(lock, who) == TRUE

\* raw(): with self.send_lock, an RLock, free or held by the caller
send_lock_free(lock, who) == lock.owner \in {-1, who}

\* lines 928 and 936: get_list defers a line it does not consume
defer(queue, entry) == Append(queue, entry)

\* a _callback that would wait for the threads it started
holds_until_joined(thr) == \E t \in DOMAIN thr : thr[t].pc # "free"

\* Thread.start() returns at once: the caller of _callback is never held by
\* the threads it started
start_holds_caller(thr) == FALSE

(***************************************************************************)
(* Construction                                                            *)
(***************************************************************************)
NoMessage == [n |-> 0, msg |-> [cmd |-> <<>>, params |-> <<>>, umask |-> NoMask],
              from |-> "none"]

NoList == [l |-> <<>>, target |-> <<>>]

IdleThread == [pc |-> "free", inst |-> Self, sent |-> 0, l |-> <<>>]

\* IRC.__init__: the state after construction, for the handlers hs the
\* program has loaded before it calls connect(), and its choices of
\* thread_callbacks and set_reconnect
InitWith(tc, hs, rc) ==
  /\ thread_callbacks = tc
  /\ connected = FALSE
  /\ enabled = TRUE
  /\ bans = IrcDict
  /\ users = IrcDict
  /\ myself = 0
  /\ serverconf = ServerConfig
  /\ handlers = hs
  /\ send_lock = [owner |-> -1, count |-> 0]
  /\ waiting_queue = <<>>
  /\ reconnect_obj = rc
  /\ sk = [open |-> FALSE, ssl |-> FALSE, ended |-> FALSE]
  /\ heap = <<>>
  /\ wire = <<>>
  /\ nread = 0
  /\ pc = "init"
  /\ ri = 1
  /\ cur = NoMessage
  /\ pending = <<>>
  /\ glist = NoList
  /\ threads = [t \in 1..MaxThreads |-> IdleThread]
  /\ ops = <<>>
  /\ attempts = 0
  /\ dispatched = <<>>
  /\ calls = <<>>
  /\ snapshot = <<>>
  /\ rawlog = <<>>
  /\ drained = {}
  /\ lastRead = Entry(0, <<>>)
  /\ raised = <<>>

(***************************************************************************)
(* Sending                                                                 *)
(***************************************************************************)
RECURSIVE Wired(_)
Wired(lines) == IF lines = <<>> THEN <<>> ELSE Head(lines) \o CRLF \o Wired(Tail(lines))

\* raw() called by the main thread for each of lines, one call after another
MainRaw(lines) ==
  /\ lines # <<>> => send_lock_free(send_lock, Main)
  /\ wire' = wire \o Wired(lines)
  /\ rawlog' = rawlog \o lines

\* the nick the program identifies with
MyNick == <<"m">>


\* line 741: the length at which send_multi forces a break, before the prefix
\* is taken off
LineLimit == 450

\* a fit that would take every chunk without measuring
fit_all(next_chunks, k, max_limit, order) == [complete_chunks |-> k, length |-> 0]

\* lines 758-763 of send_multi: the largest number of chunks, from k down to
\* 1, whose str() fits in max_limit; length is the last length measured
RECURSIVE fit(_, _, _, _)
fit(next_chunks, k, max_limit, order) ==
  IF k = 1 \/ Len(to_string(SubSeq(next_chunks, 1, k), TRUE, order)) <= max_limit
  THEN [complete_chunks |-> k,
        length |-> Len(to_string(SubSeq(next_chunks, 1, k), TRUE, order))]
  ELSE fit(next_chunks, k - 1, max_limit, order)

\* lines 765-778: the first chunk is broken when it does not fit, and the
\* chunks of the physical line are taken off next_chunks. hang: the first half
\* is empty and the second is the chunk itself, so the loop comes back to the
\* same next_chunks for ever
RECURSIVE break_loop(_, _, _, _)
break_step(next_chunks, lines, max_limit, order, f) ==
  IF f.length > max_limit
  THEN IF f.length - max_limit >= Len(next_chunks[1].text)
       THEN [hang |-> TRUE, lines |-> lines]
       ELSE break_loop(<<copy(next_chunks[1],
                              From(next_chunks[1].text,
                                   Len(next_chunks[1].text) - (f.length - max_limit)))>>
                         \o Tail(next_chunks),
                       Append(lines,
                              <<copy(next_chunks[1],
                                     SubSeq(next_chunks[1].text, 1,
                                            Len(next_chunks[1].text) - (f.length - max_limit)))>>),
                       max_limit, order)
  ELSE break_loop(From(next_chunks, f.complete_chunks),
                  Append(lines, SubSeq(next_chunks, 1, f.complete_chunks)),
                  max_limit, order)

\* lines 754-778: the while loop over the chunks of one line of the text;
\* lines are the ChunkLists of the physical lines so far
break_loop(next_chunks, lines, max_limit, order) ==
  IF next_chunks = <<>> THEN [hang |-> FALSE, lines |-> lines]
  ELSE break_step(next_chunks, lines, max_limit, order,
                  fit(next_chunks, Len(next_chunks), max_limit, order))

\* lines 751-778: the for loop over the lines of the text
RECURSIVE break_lines(_, _, _, _)
break_lines(todo, lines, max_limit, order) ==
  IF todo = <<>> THEN [hang |-> FALSE, lines |-> lines]
  ELSE IF break_loop(Head(todo), lines, max_limit, order).hang
  THEN [hang |-> TRUE, lines |-> lines]
  ELSE break_lines(Tail(todo), break_loop(Head(todo), lines, max_limit, order).lines,
                   max_limit, order)

\* what send_multi does: exc: it raised, hang: it never returns, lines: what
\* it hands to raw(), chunks: the ChunkList of each physical line, prefix; b
\* is what the loops made
Sent(exc, prefix, b, order) ==
  [exc |-> exc, hang |-> b.hang, prefix |-> prefix, chunks |-> b.lines,
   lines |-> IF exc \/ b.hang THEN <<>>
             ELSE [i \in 1..Len(b.lines) |->
                     prefix \o <<SP, ":">> \o to_string(b.lines[i], FALSE, order)]]

\* lines 741-780 of send_multi, last being a str
send_multi_break(prefix, parsed, order) ==
  IF parsed.exc THEN Sent(TRUE, prefix, [hang |-> FALSE, lines |-> <<>>], order)
  ELSE Sent(FALSE, prefix,
            break_lines(split_lines(split_words(parsed.chunks)), <<>>,
                        LineLimit - Len(prefix), order),
            order)

\* IRC.send_multi(params..., last=last, no_break=no_break), last being a str;
\* with no_break, line 730 raises NameError (the name Formats is not defined)
send_multi(params, last, no_break, order) ==
  IF get_prefix(params, <<>>).exc \/ no_break
  THEN Sent(TRUE, <<>>, [hang |-> FALSE, lines |-> <<>>], order)
  ELSE send_multi_break(get_prefix(params, <<>>).prefix, Tags_parse(last), order)

\* one call of send after another, each a record [params, last], until one
\* raises: the lines sent, and exc: a call raised (the calls after it are not
\* made)
RECURSIVE send_each(_, _)
send_each(cs, lines) ==
  IF cs = <<>> THEN [exc |-> FALSE, hang |-> FALSE, lines |-> lines]
  ELSE IF send(Head(cs).params, Head(cs).last).exc
  THEN [exc |-> TRUE, hang |-> FALSE, lines |-> lines]
  ELSE send_each(Tail(cs), Append(lines, send(Head(cs).params, Head(cs).last).line))

\* the characters of the mode changes, in the order of their code points
CodePoints == <<SP, "#", "+", "-", "0", "1", "2", "3", "4", "5", "6", "7", "8", "9",
                "a", "b", "c", "k", "l", "o", "v">>

\* a < b for two str
str_less(a, b) ==
  IF \A i \in 1..Len(a) : i <= Len(b) /\ a[i] = b[i] THEN Len(a) < Len(b)
  ELSE IF \A i \in 1..Len(b) : i <= Len(a) /\ a[i] = b[i] THEN FALSE
  ELSE LET d == CHOOSE i \in 1..Len(a) : a[i] # b[i] /\ \A k \in 1..(i - 1) : a[k] = b[k]
       IN  Find(CodePoints, a[d], 1) < Find(CodePoints, b[d], 1)

\* _key(x) < _key(y) in set_modes, the key being (not bool(val), name, val);
\* a mode change is [name, val], val being '' for a change passed as a str
key_less(x, y) ==
  IF (x.val = <<>>) # (y.val = <<>>) THEN x.val # <<>>
  ELSE IF x.name # y.name THEN str_less(x.name, y.name)
  ELSE str_less(x.val, y.val)

\* sorted(modes, key=_key): a stable sort
RECURSIVE sorted(_)
sorted_insert(s, x) ==
  SubSeq(s, 1, Cardinality({k \in DOMAIN s : ~key_less(x, s[k])})) \o <<x>>
    \o From(s, Cardinality({k \in DOMAIN s : ~key_less(x, s[k])}))

sorted(modes) ==
  IF modes = <<>> THEN <<>>
  ELSE sorted_insert(sorted(SubSeq(modes, 1, Len(modes) - 1)), modes[Len(modes)])

\* line 887: the length under which set_modes goes on filling a command
ModeLimit == 450

\* a loop test that would not count the mode changes of the command
batch_open_uncounted(target, b, max, m) ==
  /\ Len(target \o b.modenames \o join(b.modevals, <<SP>>)) < ModeLimit
  /\ b.j <= Len(m)

\* lines 887-888: the test of the inner loop of set_modes; b is [i, j,
\* cur_sign, modenames, modevals], j counting from 1
batch_open(target, b, max, m) ==
  /\ Len(target \o b.modenames \o join(b.modevals, <<SP>>)) < ModeLimit
  /\ b.i < max
  /\ b.j <= Len(m)

\* lines 890-905: one mode change is added to the command
batch_add(b, name, val) ==
  [i |-> b.i + 1, j |-> b.j + 1, cur_sign |-> <<name[1]>>,
   modenames |-> b.modenames \o (IF b.cur_sign # <<name[1]>> THEN <<name[1]>> ELSE <<>>)
                 \o Tail(name),
   modevals |-> IF val # <<>> THEN Append(b.modevals, val) ELSE b.modevals,
   exc |-> FALSE]

\* lines 887-905: the inner loop; exc: name[0] raised IndexError
RECURSIVE batch(_, _, _, _)
batch(target, b, max, m) ==
  IF ~batch_open(target, b, max, m) THEN b
  ELSE IF m[b.j].name = <<>> THEN [b EXCEPT !.exc = TRUE]
  ELSE batch(target, batch_add(b, m[b.j].name, m[b.j].val), max, m)

\* lines 880-907: the outer loop of set_modes, from m[j] on; lines are the
\* commands sent and batches the mode changes of each. hang: the inner loop
\* took no mode change, so the same command is sent again for ever
RECURSIVE set_modes_loop(_, _, _, _)
set_modes_sent(target, m, max, st, b, s) ==
  IF b.exc \/ s.exc THEN [st EXCEPT !.exc = TRUE]
  ELSE IF b.j = st.j
  THEN [st EXCEPT !.hang = TRUE, !.lines = Append(@, s.line), !.batches = Append(@, <<>>)]
  ELSE set_modes_loop(target, m, max,
                      [st EXCEPT !.j = b.j, !.lines = Append(@, s.line),
                                 !.batches = Append(@, SubSeq(m, st.j, b.j - 1))])

set_modes_batch(target, m, max, st, b) ==
  set_modes_sent(target, m, max, st, b,
                 send(<<Cmd.MODE, target, b.modenames>> \o b.modevals, <<>>))

set_modes_loop(target, m, max, st) ==
  IF st.j > Len(m) THEN st
  ELSE set_modes_batch(target, m, max, st,
                       batch(target,
                             [i |-> 0, j |-> st.j, cur_sign |-> None, modenames |-> <<>>,
                              modevals |-> <<>>, exc |-> FALSE],
                             max, m))

\* IRC.set_modes(target, *modes): the MODE commands it sends; max_modes is
\* read (and may raise) when the inner loop first tests it
set_modes(info, target, modes) ==
  IF modes # <<>> /\ Len(target) < ModeLimit /\ max_modes(info).exc
  THEN [exc |-> TRUE, hang |-> FALSE, j |-> 1, lines |-> <<>>, batches |-> <<>>,
        max_modes |-> 0]
  ELSE set_modes_loop(target, sorted(modes), max_modes(info).n,
                      [exc |-> FALSE, hang |-> FALSE, j |-> 1, lines |-> <<>>,
                       batches |-> <<>>, max_modes |-> max_modes(info).n])

\* the default of ident()'s realname (__version__)
Version == <<"v">>

\* lines 788-799 of IRC.ident: myself is the User of the mask, with its ident,
\* realname and password set; then PASS (if there is a password), NICK and
\* USER are sent
ident_sends(m, nick, id, realname, password, sent) ==
  [R |-> [m.R EXCEPT !.heap[m.um.user].ident = id,
                     !.heap[m.um.user].realname = realname,
                     !.heap[m.um.user].password = password],
   myself |-> m.um.user,
   sends |-> sent.lines,
   exc |-> sent.exc]

ident_as(m, nick, id, realname, password) ==
  ident_sends(m, nick, id, realname, password,
              send_each((IF password # <<>> /\ password # None
                         THEN <<[params |-> <<Cmd.PASS, password>>, last |-> <<>>]>>
                         ELSE <<>>)
                        \o <<[params |-> <<Cmd.NICK, nick>>, last |-> <<>>],
                             [params |-> <<Cmd.USER, id, nick, nick>>, last |-> realname]>>,
                        <<>>))

\* IRC.ident(nick, ident, realname, password): the lines it sends, and the
\* registry with myself in it
ident_full(R, nick, id, realname, password) ==
  ident_as(UserMask(R, nick), nick, IF id = <<>> \/ id = None THEN nick ELSE id,
           realname, password)

\* IRC.ident(nick) with the default ident, realname and password
ident(R, nick) == ident_full(R, nick, None, Version, None)

\* the client's state and the socket after ident
Identified(i) ==
  /\ users' = i.R.users
  /\ heap' = i.R.heap
  /\ myself' = i.myself
  /\ MainRaw(i.sends)

(***************************************************************************)
(* The program: connect(), ident(), run()                                  *)
(***************************************************************************)
\* IRC.connect succeeds (a failure raises and leaves the object as it was,
\* but for the socket)
Connect ==
  /\ pc = "init"
  /\ \E ssl \in BOOLEAN : sk' = [open |-> TRUE, ssl |-> ssl, ended |-> FALSE]
  /\ connected' = TRUE
  /\ enabled' = TRUE
  /\ pc' = "connected"
  /\ UNCHANGED <<thread_callbacks, bans, users, myself, serverconf, handlers, send_lock,
                 waiting_queue, reconnect_obj, heap, envVars, ri, cur, pending, glist,
                 threads, ops, attempts, histVars>>

\* IRC.ident, then IRC.run enters run_loop
Ident ==
  /\ pc = "connected"
  /\ Identified(ident(W.R, MyNick))
  /\ pc' = "replay"
  /\ ri' = 1
  /\ UNCHANGED <<thread_callbacks, connected, enabled, bans, serverconf, handlers,
                 send_lock, waiting_queue, reconnect_obj, sk, nread, cur, pending, glist,
                 threads, ops, attempts, dispatched, calls, snapshot, drained, lastRead,
                 raised>>

(***************************************************************************)
(* run_loop                                                                *)
(***************************************************************************)
\* where run_loop is after a message taken from the queue (the for loop goes
\* on) or read from the socket (the while loop tests self.enabled)
LoopNext(from, en) == IF from = "replay" \/ en THEN "replay" ELSE "ret"

\* the end of _process_message by an exception: the except clause of
\* run_loop logs it and the loop goes on
Except(kind, from) ==
  /\ pc' = IF run_loop_catches(kind) THEN LoopNext(from, enabled) ELSE "crashed"
  /\ cur' = NoMessage
  /\ pending' = <<>>
  /\ glist' = NoList

\* lines 1058-1073: the message is parsed and what precedes the
\* on_server_<command> callback is done; then _callback makes the list of the
\* instances it will visit
Begun(entry, from, pm, pre) ==
  /\ users' = pre.W.R.users
  /\ heap' = pre.W.R.heap
  /\ IF pre.exc
     THEN Except("message", from)
     ELSE /\ pc' = "callback"
          /\ cur' = [n |-> entry.n,
                     msg |-> [cmd |-> pm.cmd, params |-> pm.params, umask |-> pm.umask],
                     from |-> from]
          /\ pending' = callback_order(handlers)
          /\ glist' = NoList

Parsed(entry, from, pm) ==
  IF pm.exc
  THEN /\ users' = pm.R.users
       /\ heap' = pm.R.heap
       /\ Except("message", from)
  ELSE Begun(entry, from, pm, process_pre([W EXCEPT !.R = pm.R], pm))

\* _process_message(entry.txt) up to the on_server_<command> callback; nextri
\* is the index of the for loop while the message is processed
Begin(entry, from, nextri) ==
  /\ dispatched' = Append(dispatched, entry.n)
  /\ calls' = <<>>
  /\ snapshot' = ops
  /\ ri' = nextri
  /\ Parsed(entry, from, parse_message(W.R, entry.txt))

\* lines 594-603: one turn of the for loop over waiting_queue
Replay ==
  /\ pc = "replay"
  /\ IF ri <= Len(waiting_queue)
     THEN IF waiting_queue[ri] = NoneEntry
          THEN /\ pc' = "ret"
               /\ UNCHANGED <<ri, cur, pending, glist, users, heap, dispatched, calls,
                              snapshot>>
          ELSE Begin(waiting_queue[ri], "replay", ri + 1)
     ELSE /\ pc' = "reset"
          /\ UNCHANGED <<ri, cur, pending, glist, users, heap, dispatched, calls, snapshot>>
  /\ UNCHANGED <<thread_callbacks, connected, enabled, bans, myself, serverconf, handlers,
                 send_lock, waiting_queue, reconnect_obj, sk, envVars, threads, ops,
                 attempts, rawlog, drained, lastRead, raised>>

\* line 603: self.waiting_queue = []
Reset ==
  /\ pc = "reset"
  /\ waiting_queue' = <<>>
  /\ pc' = "read"
  /\ UNCHANGED <<thread_callbacks, connected, enabled, bans, users, myself, serverconf,
                 handlers, send_lock, reconnect_obj, sk, heap, envVars, ri, cur, pending,
                 glist, threads, ops, attempts, histVars>>

\* lines 605-611: get_raw_message returns the line txt, which is processed
Read(txt) ==
  /\ pc = "read"
  /\ nread < MaxReads
  /\ nread' = nread + 1
  /\ lastRead' = Entry(nread + 1, txt)
  /\ Begin(Entry(nread + 1, txt), "read", 1)
  /\ UNCHANGED <<thread_callbacks, connected, enabled, bans, myself, serverconf, handlers,
                 send_lock, waiting_queue, reconnect_obj, sk, wire, threads, ops,
                 attempts, rawlog, drained, raised>>

\* lines 605-607: get_raw_message returns None (the stream has ended, or the
\* read raised IOError) and the loop is left
ReadNone ==
  /\ pc = "read"
  /\ lastRead' = NoneEntry
  /\ sk' = [sk EXCEPT !.ended = TRUE]
  /\ pc' = "ret"
  /\ UNCHANGED <<thread_callbacks, connected, enabled, bans, users, myself, serverconf,
                 handlers, send_lock, waiting_queue, reconnect_obj, heap, envVars, ri, cur,
                 pending, glist, threads, ops, attempts, dispatched, calls, snapshot,
                 rawlog, drained, raised>>

(***************************************************************************)
(* get_list, called by get_banlist                                         *)
(***************************************************************************)
\* the query get_banlist sends: ('MODE', chan, '+b')
ListQuery == send(<<Cmd.MODE, ListTarget, <<"+", "b">>>>, <<>>).line

\* a line is a reply of the list, or its end, for the target asked
matches(msg, name, target) ==
  msg.cmd = name /\ Len(msg.params) >= 2 /\ msg.params[2] = target

\* lines 930-936 of get_list, for the message pm parsed from the line.
\* status: "more" (the loop goes on), "done" (break), "raised" (params[1]
\* raised IndexError)
get_list_parsed(pm, queue, l, target, listname, entry) ==
  IF pm.cmd = listname /\ Len(pm.params) < 2
  THEN [R |-> pm.R, queue |-> queue, l |-> l, status |-> "raised"]
  ELSE IF pm.cmd = listname /\ pm.params[2] = target
  THEN [R |-> pm.R, queue |-> queue, l |-> Append(l, From(pm.params, 2)),
        status |-> "more"]
  ELSE IF pm.cmd = endof \o listname /\ Len(pm.params) < 2
  THEN [R |-> pm.R, queue |-> queue, l |-> l, status |-> "raised"]
  ELSE IF pm.cmd = endof \o listname /\ target = pm.params[2]
  THEN [R |-> pm.R, queue |-> queue, l |-> l, status |-> "done"]
  ELSE [R |-> pm.R, queue |-> defer(queue, entry), l |-> l, status |-> "more"]

\* line 929; "raised": _parse_message raised IndexError
get_list_message(pm, queue, l, target, listname, entry) ==
  IF pm.exc THEN [R |-> pm.R, queue |-> queue, l |-> l, status |-> "raised"]
  ELSE get_list_parsed(pm, queue, l, target, listname, entry)

\* lines 925-936: one turn of the loop of get_list on what get_raw_message
\* returned
get_list_step(R, queue, l, target, listname, entry) ==
  IF entry = NoneEntry
  THEN [R |-> R, queue |-> defer(queue, entry), l |-> l, status |-> "done"]
  ELSE get_list_message(parse_message(R, entry.txt), queue, l, target, listname, entry)

\* the message is neither a reply of the list asked nor its end
NotMatching(pm, target, listname) ==
  \/ pm.exc
  \/ ~(matches(pm, listname, target) \/ matches(pm, endof \o listname, target))

\* the line was read by get_list and is neither a reply nor the end it waits for
NotConsumed(R, entry, target, listname) ==
  NotMatching(parse_message(R, entry.txt), target, listname)

\* lines 942-944 of get_banlist
store_banlist(b, chan, l) == NormalizedDict_setitem(b, chan, l)

(***************************************************************************)
(* _callback and the rest of _process_message, on the main thread          *)
(***************************************************************************)
FreeSlots == {t \in 1..MaxThreads : threads[t].pc = "free"}

\* threading.Thread(target=f).start(): a thread beyond those the model
\* tracks runs a callback that touches nothing
StartThread(inst) ==
  IF FreeSlots = {} THEN UNCHANGED threads
  ELSE LET t == CHOOSE t \in FreeSlots : \A u \in FreeSlots : t <= u
       IN  threads' = [threads EXCEPT ![t] = [pc |-> "body", inst |-> inst,
                                                sent |-> 0, l |-> <<>>]]

CallbackName == Event.on_server_X \o irc_lower(cur.msg.cmd)

\* lines 1000-1013: _callback visits the next instance
Callback ==
  /\ pc = "callback"
  /\ pending # <<>>
  /\ ~start_holds_caller(threads)
  /\ LET inst == Head(pending)
     IN  IF ~has_callback(inst, CallbackName)
         THEN /\ pending' = Tail(pending)
              /\ UNCHANGED <<pc, cur, glist, threads, calls, raised, wire, rawlog>>
         ELSE /\ calls' = Append(calls, inst)
              /\ IF runs_threaded(thread_callbacks, inst)
                 THEN /\ StartThread(inst)
                      /\ pending' = Tail(pending)
                      /\ UNCHANGED <<pc, cur, glist, raised, wire, rawlog>>
                 ELSE CASE body(inst) = "raise" ->
                             /\ Except("callback", cur.from)
                             /\ raised' = Append(raised, cur.n)
                             /\ UNCHANGED <<threads, wire, rawlog>>
                        [] body(inst) = "get_banlist" ->
                             /\ MainRaw(<<ListQuery>>)
                             /\ pc' = "drain"
                             /\ glist' = [l |-> <<>>, target |-> ListTarget]
                             /\ pending' = Tail(pending)
                             /\ UNCHANGED <<cur, threads, raised>>
                        [] OTHER ->
                             /\ pending' = Tail(pending)
                             /\ UNCHANGED <<pc, cur, glist, threads, raised, wire, rawlog>>
  /\ UNCHANGED <<ircVars, nread, ri, ops, attempts, dispatched, snapshot, drained,
                 lastRead>>

\* get_list on the main thread goes on, returns to get_banlist, which stores
\* the list (lines 942-944), or raises
Drained(g) ==
  /\ users' = g.R.users
  /\ heap' = g.R.heap
  /\ waiting_queue' = g.queue
  /\ CASE g.status = "more" ->
            /\ glist' = [glist EXCEPT !.l = g.l]
            /\ UNCHANGED <<pc, cur, pending, bans, raised>>
       [] g.status = "done" ->
            /\ bans' = store_banlist(bans, glist.target, g.l)
            /\ glist' = NoList
            /\ pc' = "callback"
            /\ UNCHANGED <<cur, pending, raised>>
       [] OTHER ->
            /\ Except("callback", cur.from)
            /\ raised' = Append(raised, cur.n)
            /\ UNCHANGED bans

\* one turn of the loop of get_list on the main thread, for what the socket
\* delivers: the line txt, or None
DrainStep(entry) ==
  /\ drained' = IF entry # NoneEntry /\ NotConsumed(W.R, entry, glist.target, Numeric.banlist)
                THEN drained \cup {entry.n} ELSE drained
  /\ Drained(get_list_step(W.R, waiting_queue, glist.l, glist.target, Numeric.banlist, entry))

Drain(txt) ==
  /\ pc = "drain"
  /\ nread < MaxReads
  /\ nread' = nread + 1
  /\ DrainStep(Entry(nread + 1, txt))
  /\ UNCHANGED <<thread_callbacks, connected, enabled, myself, serverconf, handlers,
                 send_lock, reconnect_obj, sk, wire, ri, threads, ops, attempts,
                 dispatched, calls, snapshot, rawlog, lastRead>>

DrainNone ==
  /\ pc = "drain"
  /\ DrainStep(NoneEntry)
  /\ sk' = [sk EXCEPT !.ended = TRUE]
  /\ UNCHANGED <<thread_callbacks, connected, enabled, myself, serverconf, handlers,
                 send_lock, reconnect_obj, envVars, ri, threads, ops, attempts,
                 dispatched, calls, snapshot, rawlog, lastRead>>

\* the end of _process_message
Processed(r) ==
  /\ users' = r.W.R.users
  /\ heap' = r.W.R.heap
  /\ bans' = r.W.bans
  /\ serverconf' = r.W.info
  /\ MainRaw(r.sends)
  /\ IF r.exc THEN Except("message", cur.from)
     ELSE /\ pc' = LoopNext(cur.from, enabled)
          /\ cur' = NoMessage
          /\ UNCHANGED <<pending, glist>>

\* lines 1075-1189, once _callback has visited every instance
Post ==
  /\ pc = "callback"
  /\ pending = <<>>
  /\ ~start_holds_caller(threads)
  /\ Processed(process_post(W, cur.msg))
  /\ UNCHANGED <<thread_callbacks, connected, enabled, myself, handlers, send_lock,
                 waiting_queue, reconnect_obj, sk, nread, ri, threads, ops, attempts,
                 dispatched, calls, snapshot, drained, lastRead, raised>>

(***************************************************************************)
(* Worker threads: the callbacks started by _callback on their own thread  *)
(***************************************************************************)
\* sk.send hands the bytes of one line to the socket; the model lets them
\* reach the wire in two parts, so that what another thread writes in
\* between would show
FirstPart(line) == SubSeq(line \o CRLF, 1, (Len(line) + 2) \div 2)

SecondPart(line) == From(line \o CRLF, (Len(line) + 2) \div 2)

ThreadLine(t) == IF body(threads[t].inst) = "get_banlist" THEN ListQuery ELSE WorkerLine

\* the callback returns, or raises, which ends its thread
ThreadReturn(t) ==
  /\ threads[t].pc = "body"
  /\ threads[t].inst # "t_hang"
  /\ body(threads[t].inst) \in {"return", "raise"} \/ threads[t].sent >= MaxSends
  /\ threads' = [threads EXCEPT ![t] = IdleThread]
  /\ UNCHANGED <<ircVars, envVars, mainVars, ops, attempts, histVars>>

\* raw() on a worker thread: the lock is taken and the write begins
ThreadRaw(t) ==
  /\ threads[t].pc = "body"
  /\ body(threads[t].inst) \in {"send", "get_banlist"}
  /\ threads[t].sent < MaxSends
  /\ send_lock_free(send_lock, t)
  /\ send_lock' = [owner |-> t, count |-> send_lock.count + 1]
  /\ wire' = wire \o FirstPart(ThreadLine(t))
  /\ rawlog' = Append(rawlog, ThreadLine(t))
  /\ threads' = [threads EXCEPT ![t].pc = "raw"]
  /\ UNCHANGED <<thread_callbacks, connected, enabled, bans, users, myself, serverconf,
                 handlers, waiting_queue, reconnect_obj, sk, heap, nread, mainVars, ops,
                 attempts, dispatched, calls, snapshot, drained, lastRead, raised>>

\* the write ends and the lock is released
ThreadRawEnd(t) ==
  /\ threads[t].pc = "raw"
  /\ wire' = wire \o SecondPart(ThreadLine(t))
  /\ send_lock' = IF send_lock.count <= 1 THEN [owner |-> -1, count |-> 0]
                  ELSE [send_lock EXCEPT !.count = @ - 1]
  /\ threads' = [threads EXCEPT ![t].sent = @ + 1,
                                ![t].pc = IF body(threads[t].inst) = "get_banlist"
                                          THEN "drain" ELSE "body"]
  /\ UNCHANGED <<thread_callbacks, connected, enabled, bans, users, myself, serverconf,
                 handlers, waiting_queue, reconnect_obj, sk, heap, nread, mainVars, ops,
                 attempts, dispatched, calls, snapshot, rawlog, drained, lastRead, raised>>

\* get_list on a worker thread goes on, returns to get_banlist, or raises,
\* which ends the thread
ThreadDrained(t, g) ==
  /\ users' = g.R.users
  /\ heap' = g.R.heap
  /\ waiting_queue' = g.queue
  /\ CASE g.status = "more" ->
            /\ threads' = [threads EXCEPT ![t].l = g.l]
            /\ UNCHANGED bans
       [] g.status = "done" ->
            /\ bans' = store_banlist(bans, ListTarget, g.l)
            /\ threads' = [threads EXCEPT ![t] = IdleThread]
       [] OTHER ->
            /\ threads' = [threads EXCEPT ![t] = IdleThread]
            /\ UNCHANGED bans

\* one turn of the loop of get_list on a worker thread
ThreadDrainStep(t, entry) ==
  /\ drained' = IF entry # NoneEntry /\ NotConsumed(W.R, entry, ListTarget, Numeric.banlist)
                THEN drained \cup {entry.n} ELSE drained
  /\ ThreadDrained(t, get_list_step(W.R, waiting_queue, threads[t].l, ListTarget,
                                    Numeric.banlist, entry))

ThreadDrain(t, txt) ==
  /\ threads[t].pc = "drain"
  /\ nread < MaxReads
  /\ nread' = nread + 1
  /\ ThreadDrainStep(t, Entry(nread + 1, txt))
  /\ UNCHANGED <<thread_callbacks, connected, enabled, myself, serverconf, handlers,
                 send_lock, reconnect_obj, sk, wire, mainVars, ops, attempts, dispatched,
                 calls, snapshot, rawlog, lastRead, raised>>

ThreadDrainNone(t) ==
  /\ threads[t].pc = "drain"
  /\ ThreadDrainStep(t, NoneEntry)
  /\ sk' = [sk EXCEPT !.ended = TRUE]
  /\ UNCHANGED <<thread_callbacks, connected, enabled, myself, serverconf, handlers,
                 send_lock, reconnect_obj, envVars, mainVars, ops, attempts,
                 dispatched, calls, snapshot, rawlog, lastRead, raised>>

(***************************************************************************)
(* Handlers come and go: load_module, unload_module                        *)
(***************************************************************************)
HandlerKeys == {"k1", "k2"}

\* one thing the program did: a handler registered under a key or a key
\* unregistered, or a call of joined or left on a User (and whether the User
\* was deleted then)
Op(op, k, h, u, dead) == [op |-> op, key |-> k, inst |-> h, user |-> u, dead |-> dead]

\* self.handlers[modname] = ...
Register(k, h) ==
  /\ Len(ops) < MaxOps
  /\ ops' = Append(ops, Op("register", k, h, 0, FALSE))
  /\ handlers' = dict_setitem(handlers, k, h)
  /\ UNCHANGED <<thread_callbacks, connected, enabled, bans, users, myself, serverconf,
                 send_lock, waiting_queue, reconnect_obj, sk, heap, envVars, mainVars,
                 threads, attempts, histVars>>

\* del self.handlers[modname]
Unregister(k) ==
  /\ Len(ops) < MaxOps
  /\ \E i \in 1..Len(handlers) : handlers[i][1] = k
  /\ ops' = Append(ops, Op("unregister", k, Self, 0, FALSE))
  /\ handlers' = dict_delitem(handlers, k)
  /\ UNCHANGED <<thread_callbacks, connected, enabled, bans, users, myself, serverconf,
                 send_lock, waiting_queue, reconnect_obj, sk, heap, envVars, mainVars,
                 threads, attempts, histVars>>

(***************************************************************************)
(* run(): after run_loop                                                   *)
(***************************************************************************)
\* lines 615-620
AfterLoop ==
  /\ pc = "ret"
  /\ connected' = FALSE
  /\ enabled' = FALSE
  /\ pc' = IF reconnect_obj THEN "reconnect" ELSE "stopped"
  /\ UNCHANGED <<thread_callbacks, bans, users, myself, serverconf, handlers, send_lock,
                 waiting_queue, reconnect_obj, sk, heap, envVars, ri, cur, pending, glist,
                 threads, ops, attempts, histVars>>

\* lines 622-640: an attempt fails (connect raised)
ReconnectFails ==
  /\ pc = "reconnect"
  /\ attempts < MaxReconnects
  /\ attempts' = attempts + 1
  /\ UNCHANGED <<ircVars, envVars, mainVars, threads, ops, histVars>>

\* lines 622-642: connect(self.host, self.port) and ident(...) succeed and
\* run() is entered again
Reconnect ==
  /\ pc = "reconnect"
  /\ attempts < MaxReconnects
  /\ myself # 0
  /\ attempts' = attempts + 1
  /\ sk' = [open |-> TRUE, ssl |-> FALSE, ended |-> FALSE]
  /\ connected' = TRUE
  /\ enabled' = TRUE
  /\ Identified(ident_full(W.R, heap[myself].nick, heap[myself].ident,
                           heap[myself].realname, heap[myself].password))
  /\ pc' = "replay"
  /\ ri' = 1
  /\ UNCHANGED <<thread_callbacks, bans, serverconf, handlers, send_lock, waiting_queue,
                 reconnect_obj, nread, cur, pending, glist, threads, ops, dispatched,
                 calls, snapshot, drained, lastRead, raised>>

(***************************************************************************)
(* What the server sends                                                   *)
(***************************************************************************)
\* the bytes of a line made of the given words
Line(words) == join(words, <<SP>>) \o CRLF

ConnLine ==
    \* PING :t
  [ Ping |-> Line(<<Cmd.PING, <<":", "t">>>>),
    \* :s 367 m #c x        a ban of #c
    Ban |-> Line(<<<<":", "s">>, Numeric.c367, MyNick, ListTarget, <<"x">>>>),
    \* :s 367 m #d x        a ban of another channel
    BanOther |-> Line(<<<<":", "s">>, Numeric.c367, MyNick, <<"#", "d">>, <<"x">>>>),
    \* :s 368 m #c :e       the end of the ban list of #c
    End |-> Line(<<<<":", "s">>, Numeric.c368, MyNick, ListTarget, <<":", "e">>>>),
    \* :s 367               a ban list reply cut short
    Short |-> Line(<<<<":", "s">>, Numeric.c367>>),
    \* :s                   an origin and no command
    Origin |-> Line(<<<<":", "s">>>>),
    \* JOIN                 a command without its parameter
    Bare |-> Line(<<Cmd.JOIN>>),
    \* a line of bytes that are not UTF-8
    Bytes |-> Line(<<<<"xFF">>, <<"xFF">>>>) ]

ConnLines == {ConnLine.Ping, ConnLine.Ban, ConnLine.BanOther, ConnLine.End, ConnLine.Short, ConnLine.Origin, ConnLine.Bare, ConnLine.Bytes}

(***************************************************************************)
(* The connection: run_loop, synchronous callbacks and get_list, reconnect *)
(***************************************************************************)
\* the program loads one module, or none, before it connects
LoadModule(hs) ==
  /\ pc = "init"
  /\ handlers = <<>>
  /\ \E h \in hs : Register("k1", h)

Init ==
  \E rc \in BOOLEAN : InitWith(FALSE, <<>>, rc)

Next ==
  \/ LoadModule({"h_ok", "h_raise", "h_list"})
  \/ Connect
  \/ Ident
  \/ Replay
  \/ Reset
  \/ \E txt \in ConnLines : Read(txt)
  \/ ReadNone
  \/ Callback
  \/ \E txt \in ConnLines : Drain(txt)
  \/ DrainNone
  \/ Post
  \/ AfterLoop
  \/ ReconnectFails
  \/ Reconnect

Spec == Init /\ [][Next]_vars

(***************************************************************************)
(* The tracker: the lines that change the registry, and a program that     *)
(* calls joined() and left() on the Users it holds                         *)
(***************************************************************************)
\* the callback of h_ok is running on the thread of run_loop
InCallback ==
  /\ pc = "callback"
  /\ pending # <<>>
  /\ Head(pending) = "h_ok"
  /\ ~runs_threaded(thread_callbacks, "h_ok")

\* the calls of joined() and left() the program has made
Calls == {i \in DOMAIN ops : ops[i].op \in {"joined", "left"}}

\* the callback calls User.joined(ListTarget) on the User u, which it holds
CallJoined(u) ==
  /\ InCallback
  /\ Cardinality(Calls) < MaxCalls
  /\ u \in DOMAIN heap
  /\ ops' = Append(ops, Op("joined", "", "h_ok", u, heap[u].deleted))
  /\ heap' = joined(W.R, u, ListTarget).heap
  /\ UNCHANGED <<thread_callbacks, connected, enabled, bans, users, myself, serverconf,
                 handlers, send_lock, waiting_queue, reconnect_obj, sk, envVars, mainVars,
                 threads, attempts, histVars>>

\* the callback calls User.left(ListTarget) on the User u, which it holds
CallLeft(u) ==
  /\ InCallback
  /\ Cardinality(Calls) < MaxCalls
  /\ u \in DOMAIN heap
  /\ ops' = Append(ops, Op("left", "", "h_ok", u, heap[u].deleted))
  /\ heap' = left(W.R, u, ListTarget).heap
  /\ UNCHANGED <<thread_callbacks, connected, enabled, bans, users, myself, serverconf,
                 handlers, send_lock, waiting_queue, reconnect_obj, sk, envVars, mainVars,
                 threads, attempts, histVars>>

\* the Users the model's program can hold
MaxUsers == 4

TrackLine ==
    \* :a JOIN #c
  [ JoinA |-> Line(<<<<":", "a">>, Cmd.JOIN, ListTarget>>),
    \* :b JOIN #c
    JoinB |-> Line(<<<<":", "b">>, Cmd.JOIN, ListTarget>>),
    \* :b PART #c
    PartB |-> Line(<<<<":", "b">>, Cmd.PART, ListTarget>>),
    \* :a KICK #c b
    KickB |-> Line(<<<<":", "a">>, Cmd.KICK, ListTarget, <<"b">>>>),
    \* :a QUIT
    QuitA |-> Line(<<<<":", "a">>, Cmd.QUIT>>),
    \* :a NICK b
    NickAB |-> Line(<<<<":", "a">>, Cmd.NICK, <<"b">>>>),
    \* :a NICK A
    NickCase |-> Line(<<<<":", "a">>, Cmd.NICK, <<"A">>>>),
    \* :a MODE #c +o b
    ModeB |-> Line(<<<<":", "a">>, Cmd.MODE, ListTarget, <<"+", "o">>, <<"b">>>>),
    \* :s 353 m = #c :@a b
    Names |-> Line(<<<<":", "s">>, Numeric.c353, MyNick, <<"=">>, ListTarget, <<":", "@", "a">>, <<"b">>>>) ]

TrackLines == {TrackLine.JoinA, TrackLine.JoinB, TrackLine.PartB, TrackLine.KickB, TrackLine.QuitA, TrackLine.NickAB, TrackLine.NickCase, TrackLine.ModeB, TrackLine.Names}

\* a client with synchronous callbacks and no reconnect policy
InitSync == InitWith(FALSE, <<>>, FALSE)

NextTrack ==
  \/ LoadModule({"h_ok", "h_raise"})
  \/ Connect
  \/ Ident
  \/ Replay
  \/ Reset
  \/ \E txt \in TrackLines : Read(txt)
  \/ ReadNone
  \/ Callback
  \/ Post
  \/ \E u \in 1..MaxUsers : CallJoined(u)
  \/ \E u \in 1..MaxUsers : CallLeft(u)

SpecTrack == InitSync /\ [][NextTrack]_vars

(***************************************************************************)
(* The dispatcher: handlers are registered and unregistered before run()   *)
(* and by a synchronous callback                                           *)
(***************************************************************************)
ProgramPoint == pc = "init" \/ InCallback

NextDispatch ==
  \/ ProgramPoint /\ \E k \in HandlerKeys, h \in {"h_ok", "h_raise", "h_none"} : Register(k, h)
  \/ ProgramPoint /\ \E k \in HandlerKeys : Unregister(k)
  \/ Connect
  \/ Ident
  \/ Replay
  \/ Reset
  \/ Read(ConnLine.Ping)
  \/ ReadNone
  \/ Callback
  \/ Post

SpecDispatch == InitSync /\ [][NextDispatch]_vars

(***************************************************************************)
(* Threads: callbacks run on worker threads beside run_loop                *)
(***************************************************************************)
InitThreads == \E tc \in BOOLEAN : InitWith(tc, <<>>, FALSE)

\* the steps run_loop takes without waiting for the socket
LoopStep ==
  \/ Replay
  \/ Reset
  \/ Callback
  \/ Post

\* run_loop beside callbacks that write, return or never return
NextHang ==
  \/ LoadModule({"t_hang", "t_send"})
  \/ Connect
  \/ Ident
  \/ Read(ConnLine.Ping)
  \/ ReadNone
  \/ LoopStep
  \/ \E t \in 1..MaxThreads : ThreadReturn(t)
  \/ \E t \in 1..MaxThreads : ThreadRaw(t)
  \/ \E t \in 1..MaxThreads : ThreadRawEnd(t)

SpecHang == InitThreads /\ [][NextHang]_vars

\* the thread of run() is scheduled as long as it can run, and a write that
\* has begun ends; nothing makes a callback return, and nothing is asked of
\* the socket
FairHang ==
  /\ SpecHang
  /\ WF_vars(LoopStep)
  /\ \A t \in 1..MaxThreads : WF_vars(ThreadRawEnd(t))

\* the same, and callbacks that call get_banlist on their own thread
NextThreads ==
  \/ NextHang
  \/ LoadModule({"t_list"})
  \/ \E t \in 1..MaxThreads : ThreadDrain(t, ConnLine.Ping)
  \/ \E t \in 1..MaxThreads : ThreadDrainNone(t)

SpecThreads == InitThreads /\ [][NextThreads]_vars

(***************************************************************************)
(* Properties of the connection                                            *)
(***************************************************************************)
Range(f) == {f[i] : i \in DOMAIN f}

\* the lines, by their number, that wait in the queue
Queued == {waiting_queue[i].n : i \in DOMAIN waiting_queue} \ {0}

\* C1: with get_list called by synchronous callbacks only, the lines are
\* handed to _process_message in the order in which they were read (a line
\* is never handed over after a line read later), and when run_loop empties
\* the queue to read again, every line of the queue has been handed over
C1_DispatchInReadOrder ==
  /\ \A i, j \in DOMAIN dispatched : i < j => dispatched[i] <= dispatched[j]
  /\ pc = "reset" => \A i \in DOMAIN waiting_queue :
                        waiting_queue[i] # NoneEntry /\ waiting_queue[i].n \in Range(dispatched)

\* C2: a line read by get_list that is neither a reply of the list nor its
\* end is in the replay queue until it is dispatched
C2_NoLineLost == \A n \in drained : n \in Queued \/ n \in Range(dispatched)

\* C4: when a synchronous callback raises while run_loop processes a line
\* (the callback itself, or the get_list it called), run_loop is neither left
\* nor broken: it is back at the head of its loop
C4_LoopSurvivesCallback == [][Len(raised') > Len(raised) => pc' = "replay"]_vars

\* a callback raised during one line and a line read later was dispatched
C4_NextLineDispatched ==
  /\ \E i \in DOMAIN handlers : handlers[i][2] = "h_raise"
  /\ \E i \in DOMAIN raised, j \in DOMAIN dispatched : dispatched[j] > raised[i]

\* C5: run_loop returns only when a read of the connection it serves has
\* met the end of the stream or an IOError, or the client is disabled
C5_ReturnsOnlyAtEndOfStream ==
  [][(pc # "ret" /\ pc' = "ret") => (sk'.ended \/ ~enabled)]_vars

(***************************************************************************)
(* Properties of the threads                                               *)
(***************************************************************************)
\* the workers that are in the middle of a write
Writing == {t \in DOMAIN threads : threads[t].pc = "raw"}

\* C3: what is on the wire is the lines handed to raw(), each whole and
\* followed by CRLF, in the order in which raw() took the lock; of the line
\* a worker is writing, the part not yet written is all that is missing
C3_WholeLinesOnWire ==
  /\ Cardinality(Writing) <= 1
  /\ Writing = {} => wire = Wired(rawlog)
  /\ \A t \in Writing : wire \o SecondPart(ThreadLine(t)) = Wired(rawlog)

\* the thread of run_loop and a worker have both written, the worker first
C3_BothWrote ==
  /\ Len(rawlog) >= 4
  /\ rawlog[3] = WorkerLine
  /\ rawlog[4] = send(<<Cmd.PONG>>, <<"t">>).line
  /\ Writing = {}

\* C7: run_loop ends the processing of every line it has begun, whatever the
\* threaded callbacks it started do, one that never returns included
C7_LoopNeverWaits == (pc = "callback") ~> (pc = "read" \/ pc = "ret")

\* a threaded callback has not returned and run_loop has since dispatched
\* another line
C7_DispatchedWhileHanging ==
  /\ \E t \in DOMAIN threads : threads[t].pc = "body" /\ threads[t].inst = "t_hang"
  /\ Len(dispatched) >= 2
  /\ pc = "read"

(***************************************************************************)
(* Properties of the dispatcher                                            *)
(***************************************************************************)
Front(q) == SubSeq(q, 1, Len(q) - 1)

IsPrefix(p, q) == Len(p) <= Len(q) /\ SubSeq(q, 1, Len(p)) = p

\* the handlers registered after the program did what log tells, in the
\* order of registration of their keys: a handler registered under a key in
\* use takes the place of the one it replaces
RECURSIVE Registered(_)
Registered(log) ==
  IF log = <<>> THEN <<>>
  ELSE LET prev == Registered(Front(log))
           o    == log[Len(log)]
       IN  IF o.op = "register"
           THEN IF \E i \in DOMAIN prev : prev[i].key = o.key
                THEN [i \in DOMAIN prev |-> IF prev[i].key = o.key THEN o ELSE prev[i]]
                ELSE Append(prev, o)
           ELSE IF o.op = "unregister"
           THEN SelectSeq(prev, LAMBDA e : e.key # o.key)
           ELSE prev

\* the instances to call for the message being dispatched: the client, then
\* the handlers registered when the dispatch began, those without a callback
\* of the name left out
ToCall ==
  SelectSeq(<<Self>> \o [i \in DOMAIN Registered(snapshot) |-> Registered(snapshot)[i].inst],
            LAMBDA inst : has_callback(inst, CallbackName))

\* C6: the callbacks of one event are invoked in the order of ToCall, the
\* client first and then the handlers by registration, all of them once
\* _callback has gone through its list; an unregistered handler is not among
\* them, and of two handlers registered under one key only the later is
C6_CallbackOrder ==
  pc = "callback" =>
    /\ IsPrefix(calls, ToCall)
    /\ pending = <<>> => calls = ToCall

\* an event went to the client and to the one handler left, after two
\* handlers were registered and the first of them unregistered
C6_AfterUnregister ==
  /\ pc = "callback"
  /\ pending = <<>>
  /\ Len(snapshot) = 3
  /\ snapshot[1].op = "register" /\ snapshot[2].op = "register"
  /\ snapshot[3].op = "unregister" /\ snapshot[3].key = snapshot[1].key
  /\ snapshot[2].key # snapshot[1].key
  /\ calls = <<Self, snapshot[2].inst>>

(***************************************************************************)
(* Properties of the tracker                                               *)
(***************************************************************************)
Live == {u \in DOMAIN heap : ~heap[u].deleted}

\* the keys under which the registry holds the User u
EntriesOf(reg, u) == {k \in DOMAIN reg.data : reg.data[k] = u}

\* C8: no two live Users have the same nick up to case, and every live User
\* is in the registry under one key
C8_OneUserPerNick ==
  /\ \A u, v \in Live : u # v => ~irc_equals(heap[u].nick, heap[v].nick)
  /\ \A u \in Live : Cardinality(EntriesOf(users, u)) = 1

\* the processing of a NICK message of a known user, with its parameter,
\* ends in this step
NickEnds ==
  /\ cur.msg.cmd = Cmd.NICK
  /\ cur.msg.umask.some
  /\ Len(cur.msg.params) >= 1
  /\ cur' = NoMessage

\* C9: when the processing of a NICK message of the User U ends, the
\* registry has no entry under the old nick (unless the new nick is the old
\* one up to case, which is one key), its entry under the new nick is U, the
\* memberships of U are what they were and U.nick is the new nick
C9_Renamed ==
  [][NickEnds =>
       LET U == cur.msg.umask.user
       IN  /\ \/ irc_equals(heap[U].nick, cur.msg.params[1])
              \/ ~NormalizedDict_contains(users', heap[U].nick)
           /\ NormalizedDict_contains(users', cur.msg.params[1])
           /\ NormalizedDict_getitem(users', cur.msg.params[1]) = U
           /\ heap'[U].channels = heap[U].channels
           /\ heap'[U].nick = cur.msg.params[1]]_vars

\* the User that QUIT: the line :a QUIT has just been read and its message is
\* handed to the callbacks
QuitRead == lastRead'.n = nread' /\ nread' # nread /\ lastRead'.txt = TrackLine.QuitA

\* C10: once :a QUIT is read, the User of a is deleted, has no membership
\* and the registry has no entry for a; and a deleted User never has a
\* membership nor an entry in the registry, whatever is called on it
C10_QuitIsFinal ==
  [][/\ QuitRead =>
          /\ pc' = "callback"
          /\ cur'.msg.cmd = Cmd.QUIT
          /\ heap'[cur'.msg.umask.user].deleted
          /\ NormalizedDict_contains(users, <<"a">>) =>
               cur'.msg.umask.user = NormalizedDict_getitem(users, <<"a">>)
          /\ ~NormalizedDict_contains(users', <<"a">>)
     /\ \A u \in DOMAIN heap' :
          heap'[u].deleted =>
            /\ heap'[u].channels = IrcDict
            /\ EntriesOf(users', u) = {}
            /\ u \in DOMAIN heap /\ heap[u].deleted => heap'[u] = heap[u]]_vars

\* joined() was called on a User that QUIT had deleted, and the User is as
\* QUIT left it
C10_CalledOnDeleted ==
  \E i \in DOMAIN ops :
    /\ ops[i].op = "joined"
    /\ ops[i].dead
    /\ heap[ops[i].user].deleted
    /\ heap[ops[i].user].channels = IrcDict

\* the line l has just been read and its message is handed to the callbacks
LineRead(l) == lastRead'.n = nread' /\ nread' # nread /\ lastRead'.txt = l

\* the User u is in the channel #c
Member(h, u) == u \in DOMAIN h /\ NormalizedDict_contains(h[u].channels, ListTarget)

\* C11: a JOIN of #c by a User that is in #c leaves its membership and its
\* modes in #c as they were; a PART of #c by a User that is not in #c, and a
\* KICK from #c of a User that is not in #c, leave every User as it was and
\* give a new User no membership; and none of the three raises
C11_MembershipIdempotent ==
  [][/\ \A l \in {TrackLine.JoinA, TrackLine.JoinB} :
          LineRead(l) =>
            /\ pc' = "callback"
            /\ cur'.msg.cmd = Cmd.JOIN
            /\ Member(heap, cur'.msg.umask.user) =>
                 heap'[cur'.msg.umask.user].channels = heap[cur'.msg.umask.user].channels
     /\ \A l \in {TrackLine.PartB, TrackLine.KickB} :
          LineRead(l) =>
            /\ pc' = "callback"
            /\ cur'.msg.cmd \in {Cmd.PART, Cmd.KICK}
            /\ LET U == NormalizedDict_getitem(users', <<"b">>)
               IN  ~Member(heap, U) =>
                     /\ \A v \in DOMAIN heap : heap'[v] = heap[v]
                     /\ \A v \in DOMAIN heap' : v \notin DOMAIN heap => heap'[v].channels = IrcDict]_vars

\* :a JOIN #c was read while a was in #c with the mode o, and a still has it
C11_JoinedTwice ==
  /\ pc = "callback"
  /\ lastRead.txt = TrackLine.JoinA
  /\ cur.msg.cmd = Cmd.JOIN
  /\ Member(heap, cur.msg.umask.user)
  /\ NormalizedDict_getitem(heap[cur.msg.umask.user].channels, ListTarget) # {}

(***************************************************************************)
(* The outbound methods, called by the program between connect() and run() *)
(***************************************************************************)
\* the calls of outbound methods the program may make
MaxOut == 2

\* the outbound calls the program has made
OutOps == {"send", "join", "kick", "ident", "send_multi", "set_modes"}
OutCalls == {i \in DOMAIN ops : ops[i].op \in OutOps}

\* the program calls the outbound method op with args; r is what the call
\* does: the lines it hands to raw(), exc: it raised, hang: it never returns
Called(op, args, r) ==
  /\ pc = "connected"
  /\ Cardinality(OutCalls) < MaxOut
  /\ ops' = Append(ops, [op |-> op, args |-> args, exc |-> r.exc, out |-> r])
  /\ MainRaw(r.lines)
  /\ pc' = IF r.hang THEN "hung" ELSE pc
  /\ UNCHANGED <<thread_callbacks, connected, enabled, bans, serverconf, handlers,
                 send_lock, waiting_queue, reconnect_obj, sk, nread, ri, cur, pending,
                 glist, threads, attempts, dispatched, calls, snapshot, drained, lastRead,
                 raised>>

\* IRC.send(params..., last=last)
CallSend(params, last) ==
  /\ Called("send", <<params, last>>, send_each(<<[params |-> params, last |-> last]>>, <<>>))
  /\ UNCHANGED <<users, heap, myself>>

\* IRC.join(channel, password), line 806
CallJoin(channel, password) ==
  /\ Called("join", <<channel, password>>,
            send_each(<<[params |-> <<Cmd.JOIN, channel, password>>, last |-> <<>>]>>, <<>>))
  /\ UNCHANGED <<users, heap, myself>>

\* IRC.kick(chan, user, reason), line 829
CallKick(chan, user, reason) ==
  /\ Called("kick", <<chan, user, reason>>,
            send_each(<<[params |-> <<Cmd.KICK, chan, user>>, last |-> reason]>>, <<>>))
  /\ UNCHANGED <<users, heap, myself>>

\* IRC.ident(nick, ident, realname, password); i is what ident does
CallIdentAs(args, i) ==
  /\ Called("ident", args, [exc |-> i.exc, hang |-> FALSE, lines |-> i.sends])
  /\ users' = i.R.users
  /\ heap' = i.R.heap
  /\ myself' = i.myself

CallIdent(nick, id, realname, password) ==
  CallIdentAs(<<nick, id, realname, password>>, ident_full(W.R, nick, id, realname, password))

\* the texts the program passes to the outbound methods
OutText ==
  [ chan |-> ListTarget,
    \* 'a b'
    spaced |-> <<"a", SP, "b">>,
    \* ':a'
    colon |-> <<":", "a">>,
    \* 'a\nb'
    lined |-> <<"a", LF, "b">>,
    \* 'a\r\nQUIT\r\n'
    crlf |-> <<"a", CR, LF, "Q", "U", "I", "T", CR, LF>>,
    \* 'a\rQUIT'
    cr |-> <<"a", CR, "Q", "U", "I", "T">>,
    nick |-> <<"n">>,
    pw |-> <<"p", "w">> ]

\* what the program passes as a non-last parameter, and as the last one
OutParams == {<<>>, OutText.chan, OutText.nick, OutText.spaced, OutText.colon, OutText.lined}
OutLasts == {<<>>, OutText.nick, OutText.spaced, OutText.colon, OutText.lined, OutText.crlf, OutText.cr}

NextOut ==
  \/ Connect
  \/ \E a \in OutParams, last \in OutLasts : CallSend(<<Cmd.PRIVMSG, a>>, last)
  \/ \E a, b \in OutParams : CallJoin(a, b)
  \/ \E a \in OutParams, last \in OutLasts : CallKick(OutText.chan, a, last)
  \/ \E id \in {None, OutText.nick, OutText.spaced}, rn \in {Version, OutText.crlf},
        password \in {None, <<>>, OutText.pw, OutText.spaced} :
       CallIdent(OutText.nick, id, rn, password)

SpecOut == InitSync /\ [][NextOut]_vars

\* the outbound call that the step makes
OutCall == IF ops' # ops /\ ops'[Len(ops')].op \in OutOps THEN ops'[Len(ops')] ELSE [op |-> "", exc |-> FALSE]

\* C12: an outbound call that raises has handed no line to the socket
C12_RaisesBeforeWriting ==
  [][OutCall.exc => wire' = wire]_vars

\* C13: a call of send() that does not raise puts one line on the wire, and
\* the line holds no CR and no LF before the CRLF that ends it
C13_OneLinePerSend ==
  [][OutCall.op = "send" /\ ~OutCall.exc =>
       LET line == SubSeq(wire', Len(wire) + 1, Len(wire') - Len(CRLF))
       IN  /\ wire' = wire \o line \o CRLF
           /\ CR \notin Chars(line)
           /\ LF \notin Chars(line)]_vars

(***************************************************************************)
(* send_multi, called by the program between connect() and run()           *)
(***************************************************************************)
\* two of the orders a set of str is iterated in: uncolor before the other
\* tags, and after them
Orders == {<<"reset", "uncolor", "bold", "underline", "reverse">>,
           <<"bold", "underline", "reverse", "reset", "uncolor">>}

\* IRC.send_multi(params..., last=last, no_break=no_break)
CallSendMulti(params, last, no_break, order) ==
  /\ Called("send_multi", <<params, last, no_break>>, send_multi(params, last, no_break, order))
  /\ UNCHANGED <<users, heap, myself>>

\* n times the character c
Rep(c, n) == [i \in 1..n |-> c]

\* the texts the program passes to send_multi. The prefix 'PRIVMSG #c' leaves
\* 440 characters to a line, the prefix of LongTarget leaves 6
LongTarget == <<"#">> \o Rep("x", 435)

MultiText ==
  [ \* 1000 times 'a'
    plain |-> Rep("a", 1000),
    \* 14 words of 40 letters
    words |-> [i \in 1..573 |-> IF i % 41 = 0 THEN SP ELSE "a"],
    \* bold, red on green, 300 times 'a', reset, 600 times 'b'
    styled |-> <<formats.bold, formats.uncolor, "4", ",", "3">> \o Rep("a", 300)
               \o <<formats.reset>> \o Rep("b", 600),
    \* 'aaa', a blank line, bold and 450 times 'b'
    lined |-> Rep("a", 3) \o <<LF, LF, formats.bold>> \o Rep("b", 450),
    \* underlined and bold words that end at the 440th character, then two more
    edge |-> <<formats.underline>> \o [i \in 1..437 |-> IF i % 23 = 0 THEN SP ELSE "a"]
             \o <<formats.bold, "b", "b", SP, "c", "c">>,
    \* the color 99, which is no color
    nocolor |-> <<formats.uncolor, "9", "9", "a">>,
    \* underline, uncolor, reverse, '4'
    tags |-> <<formats.underline, formats.uncolor, formats.reverse, "4">>,
    \* 'a b c d'
    short |-> <<"a", SP, "b", SP, "c", SP, "d">>,
    \* 'abcdefghijklmnopqrst'
    letters |-> <<"a", "b", "c", "d", "e", "f", "g", "h", "i", "j", "k", "l", "m", "n", "o",
                  "p", "q", "r", "s", "t">>,
    \* bold 'abcd', underline 'efgh'
    bold |-> <<formats.bold, "a", "b", "c", "d", formats.underline, "e", "f", "g", "h">>,
    \* 'a', an empty line, 'b'
    gap |-> <<"a", LF, LF, "b">>,
    \* 'a', a line of one space, 'b c'
    spaces |-> <<"a", LF, SP, LF, "b", SP, "c">> ]

\* the calls of send_multi the program makes: target and text
MultiCases ==
  {<<ListTarget, MultiText[n]>> : n \in DOMAIN MultiText}
    \cup {<<LongTarget, MultiText[n]>> : n \in {"tags", "short", "letters", "bold"}}
    \cup {<<OutText.spaced, MultiText.short>>}

NextMulti ==
  \/ Connect
  \/ \E c \in MultiCases, no_break \in BOOLEAN, order \in Orders :
       CallSendMulti(<<Cmd.PRIVMSG, c[1]>>, c[2], no_break, order)

SpecMulti == InitSync /\ [][NextMulti]_vars

\* C14: the last parameter of every line that send_multi sends, line breaking
\* enabled, is no longer than 450 - len(prefix)
C14_LinesWithinBudget ==
  \A i \in DOMAIN ops :
    ops[i].op = "send_multi" /\ ~ops[i].args[3] =>
      \A j \in DOMAIN ops[i].out.lines :
         /\ \E k \in DOMAIN rawlog : rawlog[k] = ops[i].out.lines[j]
         /\ Len(ops[i].out.lines[j]) - Len(ops[i].out.prefix \o <<SP, ":">>)
              <= LineLimit - Len(ops[i].out.prefix)

\* send_multi has sent three lines or more with format codes in them, and
\* the last parameter of one of them has the length 440, which is the budget
C14_FullLine ==
  /\ Len(ops) = 1
  /\ ops[1].op = "send_multi"
  /\ Len(rawlog) >= 3
  /\ \E i \in DOMAIN rawlog :
       /\ Len(rawlog[i]) = Len(ops[1].out.prefix) + 2 + (LineLimit - Len(ops[1].out.prefix))
       /\ Chars(rawlog[i]) \cap format_codes # {}

\* the characters of the chunks, each with its colors and its lasting tags
RECURSIVE StyledChars(_)
StyledChars(children) ==
  IF children = <<>> THEN <<>>
  ELSE [i \in 1..Len(Head(children).text) |->
          [char |-> Head(children).text[i], fgcolor |-> Head(children).fgcolor,
           bgcolor |-> Head(children).bgcolor, tags |-> Head(children).tags \ Transient]]
       \o StyledChars(Tail(children))

\* the chunks of all the ChunkLists of lists, in order
RECURSIVE Children(_)
Children(lists) == IF lists = <<>> THEN <<>> ELSE Head(lists) \o Children(Tail(lists))

NotNewline(c) == c.char # LF

\* the last parameters of the lines, one after another
RECURSIVE LastParams(_, _)
LastParams(lines, prefix) ==
  IF lines = <<>> THEN <<>>
  ELSE From(Head(lines), Len(prefix) + 2) \o LastParams(Tail(lines), prefix)

C16_NoBreakSendsLinesAsIs ==
  \A i \in DOMAIN ops :
    ops[i].op = "send_multi" /\ ops[i].args[3] /\ ~get_prefix(ops[i].args[1], <<>>).exc =>
      /\ ~ops[i].exc
      /\ ops[i].out.lines
           = [j \in 1..Len(split(ops[i].args[2], LF)) |->
                get_prefix(ops[i].args[1], <<>>).prefix \o <<SP, ":">>
                  \o split(ops[i].args[2], LF)[j]]

(***************************************************************************)
(* set_modes, called by a handler's callback, after the server has told    *)
(* how many modes a command may change                                     *)
(***************************************************************************)
\* IRC.set_modes(target, *modes), called by the callback of h_ok, which
\* catches what it raises; r is what the call does
CallSetModesAs(args, r) ==
  /\ InCallback
  /\ Cardinality(OutCalls) < MaxOut
  /\ ops' = Append(ops, [op |-> "set_modes", args |-> args, exc |-> r.exc, out |-> r])
  /\ MainRaw(r.lines)
  /\ pc' = IF r.hang THEN "hung" ELSE pc
  /\ UNCHANGED <<thread_callbacks, connected, enabled, bans, users, myself, serverconf,
                 handlers, send_lock, waiting_queue, reconnect_obj, sk, heap, nread, ri,
                 cur, pending, glist, threads, attempts, dispatched, calls, snapshot,
                 drained, lastRead, raised>>

CallSetModes(target, modes) ==
  CallSetModesAs(<<target, modes>>, set_modes(serverconf, target, modes))

\* the feature lists the server sends
ModesLine ==
    \* :s 005 m MODES=1 :x
  [ One |-> Line(<<<<":", "s">>, Numeric.c005, MyNick, Feature.MODES \o <<"=", "1">>, <<":", "x">>>>),
    \* :s 005 m MODES=0 :x
    Zero |-> Line(<<<<":", "s">>, Numeric.c005, MyNick, Feature.MODES \o <<"=", "0">>, <<":", "x">>>>),
    \* :s 005 m MODES :x
    Flag |-> Line(<<<<":", "s">>, Numeric.c005, MyNick, Feature.MODES, <<":", "x">>>>),
    \* :s 005 m MODES=k :x
    NoNumber |-> Line(<<<<":", "s">>, Numeric.c005, MyNick, Feature.MODES \o <<"=", "k">>, <<":", "x">>>>) ]

\* the mode changes the program passes to set_modes
Mode ==
  [ op_a |-> [name |-> <<"+", "o">>, val |-> <<"a">>],
    voice_b |-> [name |-> <<"+", "v">>, val |-> <<"b">>],
    deop_c |-> [name |-> <<"-", "o">>, val |-> <<"c">>],
    limit |-> [name |-> <<"+", "l">>, val |-> <<"3", "0">>],
    nokey |-> [name |-> <<"-", "k">>, val |-> <<>>],
    \* ('+o', 'a b')
    op_spaced |-> [name |-> <<"+", "o">>, val |-> <<"a", SP, "b">>] ]

ModeLists ==
  { <<>>,
    <<Mode.nokey>>,
    <<Mode.op_a, Mode.voice_b>>,
    <<Mode.nokey, Mode.op_a>>,
    <<Mode.voice_b, Mode.op_a>>,
    <<Mode.op_a, Mode.voice_b, Mode.deop_c, Mode.limit>>,
    <<Mode.op_a, Mode.nokey, Mode.voice_b, Mode.limit, Mode.deop_c>>,
    <<Mode.op_a, Mode.op_spaced>> }

NextModes ==
  \/ LoadModule({"h_ok"})
  \/ Connect
  \/ Ident
  \/ Replay
  \/ Reset
  \/ \E n \in DOMAIN ModesLine : Read(ModesLine[n])
  \/ ReadNone
  \/ Callback
  \/ Post
  \/ \E modes \in ModeLists : CallSetModes(ListTarget, modes)

SpecModes == InitSync /\ [][NextModes]_vars

\* the words of a line that follow the third (MODE, the target, the mode
\* names), which are the values of its mode changes
ModeValues(line) == From(split(line, SP), 3)

\* C17: no MODE command that set_modes sends carries more values than
\* max_modes, whatever the server gave as MODES
C17_ValuesWithinMaxModes ==
  \A i \in DOMAIN ops :
    ops[i].op = "set_modes" =>
      \A j \in DOMAIN ops[i].out.lines :
         /\ \E k \in DOMAIN rawlog : rawlog[k] = ops[i].out.lines[j]
         /\ Len(ModeValues(ops[i].out.lines[j])) <= ops[i].out.max_modes

\* set_modes was called with four valued changes when the server allows one
\* by command, and four commands were sent
C17_OneByCommand ==
  \E i \in DOMAIN ops :
    /\ ops[i].op = "set_modes"
    /\ ops[i].out.max_modes = 1
    /\ ~ops[i].exc
    /\ ~ops[i].out.hang
    /\ Len(ops[i].args[2]) = 4
    /\ Len(ops[i].out.lines) = 4
    /\ \A j \in 1..4 : Len(ModeValues(ops[i].out.lines[j])) = 1

\* C18: when set_modes returns, the mode changes of its MODE commands, one
\* command after another, are the changes the caller passed, in the order it
\* passed them
C18_InputOrderKept ==
  \A i \in DOMAIN ops :
    ops[i].op = "set_modes" /\ ~ops[i].exc /\ ~ops[i].out.hang =>
      Children(ops[i].out.batches) = ops[i].args[2]

\* C19: a reconnection attempt leaves run() in its retry loop or, when
\* connect and ident succeed, in run_loop, connected, after ident has sent the
\* stored nick, ident, realname and password; and the run_loop entered after
\* a reconnection returns only once the new connection's stream has ended
C19_ReconnectResumes ==
  [][/\ pc = "reconnect" => pc' \in {"reconnect", "replay"}
     /\ pc = "reconnect" /\ pc' = "replay" =>
          /\ connected' /\ enabled' /\ ~sk'.ended
          /\ rawlog' = rawlog \o ident_full(W.R, heap[myself].nick, heap[myself].ident,
                                            heap[myself].realname, heap[myself].password).sends
     /\ attempts > 0 /\ pc \notin {"ret", "reconnect"} /\ pc' = "ret" => sk'.ended]_vars


(***************************************************************************)
(* get_banlist, called by a handler's callback, on what the socket then    *)
(* delivers                                                                *)
(***************************************************************************)
\* lines the socket delivers to one call of get_list, at most
MaxList == 3
\* calls of get_banlist the program makes
MaxLists == 1

\* lines 923-937: the loop of get_list on the lines the socket delivers,
\* entries, of which n have been read; ending: what the loop meets once they
\* are read ("none": get_raw_message returns None, "timeout": the test of
\* line 924 breaks).  none: the loop has read None
RECURSIVE get_list_loop(_, _, _, _, _, _)
get_list_loop(g, target, listname, entries, ending, n) ==
  IF g.status # "more" THEN [g |-> g, read |-> n, none |-> FALSE]
  ELSE IF n < Len(entries)
  THEN get_list_loop(get_list_step(g.R, g.queue, g.l, target, listname, entries[n + 1]),
                     target, listname, entries, ending, n + 1)
  ELSE IF ending = "timeout"
  THEN [g |-> [g EXCEPT !.status = "done"], read |-> n, none |-> FALSE]
  ELSE [g |-> get_list_step(g.R, g.queue, g.l, target, listname, NoneEntry),
        read |-> n, none |-> TRUE]

\* IRC.get_list, after it has sent the query (lines 921-922)
get_list(R, queue, target, listname, entries, ending) ==
  get_list_loop([R |-> R, queue |-> queue, l |-> <<>>, status |-> "more"],
                target, listname, entries, ending, 0)

\* the lines as get_raw_message returns them, numbered from first on
Entries(lines, first) == [i \in 1..Len(lines) |-> Entry(first + i, lines[i])]

\* the calls of get_banlist the program has made
ListCalls == {i \in DOMAIN ops : ops[i].op = "get_banlist"}

\* IRC.get_banlist(ListTarget, timeout), called by the callback of h_ok,
\* which catches what it raises; r is what get_list does
CallGetBanlistAs(args, entries, r) ==
  /\ InCallback
  /\ Cardinality(ListCalls) < MaxLists
  /\ ops' = Append(ops, [op |-> "get_banlist", args |-> args,
                         exc |-> r.g.status = "raised", out |-> r.g.l])
  /\ MainRaw(<<ListQuery>>)
  /\ nread' = nread + r.read
  /\ users' = r.g.R.users
  /\ heap' = r.g.R.heap
  /\ waiting_queue' = r.g.queue
  /\ sk' = IF r.none THEN [sk EXCEPT !.ended = TRUE] ELSE sk
  /\ drained' = drained \cup {entries[i].n : i \in {j \in 1..r.read :
                                 NotConsumed(W.R, entries[j], ListTarget, Numeric.banlist)}}
  /\ bans' = IF r.g.status = "done" THEN store_banlist(bans, ListTarget, r.g.l) ELSE bans
  /\ UNCHANGED <<thread_callbacks, connected, enabled, myself, serverconf, handlers,
                 send_lock, reconnect_obj, mainVars, threads, attempts, dispatched, calls,
                 snapshot, lastRead, raised>>

CallGetBanlistOn(lines, ending, entries) ==
  CallGetBanlistAs(<<ListTarget, lines, ending>>, entries,
                   get_list(W.R, waiting_queue, ListTarget, Numeric.banlist, entries, ending))

CallGetBanlist(lines, ending) == CallGetBanlistOn(lines, ending, Entries(lines, nread))

\* the lines the server sends while the list is awaited
ListLine ==
    \* :s 367 m #c y w      another ban of #c
  [ BanY |-> Line(<<<<":", "s">>, Numeric.c367, MyNick, ListTarget, <<"y">>, <<"w">>>>),
    \* :s 368 m #d :e       the end of the ban list of another channel
    EndOther |-> Line(<<<<":", "s">>, Numeric.c368, MyNick, <<"#", "d">>, <<":", "e">>>>) ]

ListLines == {ConnLine.Ban, ListLine.BanY, ConnLine.BanOther, ConnLine.End,
              ListLine.EndOther, ConnLine.Short}

\* the sequences of at most n lines
Streams(n) == UNION {[1..k -> ListLines] : k \in 0..n}

NextList ==
  \/ LoadModule({"h_ok"})
  \/ Connect
  \/ Ident
  \/ Replay
  \/ Reset
  \/ Read(ConnLine.Ping)
  \/ ReadNone
  \/ Callback
  \/ Post
  \/ \E lines \in Streams(MaxList), ending \in {"none", "timeout"} :
        CallGetBanlist(lines, ending)

SpecList == InitSync /\ [][NextList]_vars

\* the message of a line, as _parse_message gives it
MessageOf(line) == parse_message([users |-> IrcDict, heap |-> <<>>], line)

\* the line is a reply of the list of ListTarget, or its end
IsReply(line) == ~MessageOf(line).exc /\ matches(MessageOf(line), Numeric.banlist, ListTarget)
IsEnd(line) == ~MessageOf(line).exc /\ matches(MessageOf(line), endof \o Numeric.banlist, ListTarget)

\* the lines received before the end of the list: all of them when no line
\* ends it
BeforeEnd(lines) ==
  IF \E i \in DOMAIN lines : IsEnd(lines[i])
  THEN SubSeq(lines, 1, (CHOOSE i \in DOMAIN lines :
                           IsEnd(lines[i]) /\ \A j \in 1..(i - 1) : ~IsEnd(lines[j])) - 1)
  ELSE lines

\* the parameters of each reply among lines, after the second, in the order
\* of lines
Tails(lines) ==
  LET replies == SelectSeq(lines, IsReply)
  IN  [i \in DOMAIN replies |-> From(MessageOf(replies[i]).params, 2)]

\* C20: get_banlist returns, and what it returns is the parameter tails of
\* the replies for the target asked among the lines received before the end
\* of the list for that target (or the end of the stream, or the timeout), in
\* the order they were received
C20_ListIsTheReplies ==
  \A i \in DOMAIN ops :
    ops[i].op = "get_banlist" =>
      ~ops[i].exc /\ ops[i].out = Tails(BeforeEnd(ops[i].args[2]))


(***************************************************************************)
(* Origins: the lines whose first word is a mask, read by run_loop         *)
(***************************************************************************)
\* the masks the server sends as origins
Mask ==
  [ full   |-> <<"a", "!", "i", "@", "h">>,
    other  |-> <<"a", "!", "j", "@", "g">>,
    upper  |-> <<"A", "!", "k", "@", "h">>,
    nick   |-> <<"a">>,
    two_at |-> <<"b", "!", "i", "@", "h", "@", "x">>,
    bangs  |-> <<"b", "!", "i", "!", "j", "@", "h">>,
    noid   |-> <<"b", "!", "@", "h">>,
    bytes  |-> <<"xFF", "!", "i", "@", "h">> ]

Masks == {Mask[n] : n \in DOMAIN Mask}

\* :<mask> PING, and the lines that are a mask and nothing else, or have no
\* origin
MaskLines ==
  {Line(<<<<":">> \o m, Cmd.PING>>) : m \in Masks}
    \cup {Line(<<<<":">> \o Mask.full>>), ConnLine.Ping}

NextMask ==
  \/ LoadModule({"h_ok"})
  \/ Connect
  \/ Ident
  \/ Replay
  \/ Reset
  \/ \E txt \in MaskLines : Read(txt)
  \/ ReadNone
  \/ Callback
  \/ Post

SpecMask == InitSync /\ [][NextMask]_vars

\* the first word of the line
FirstWord(line) == split(strip(line, {CR, LF}), SP)[1]

HasOrigin(line) == startswith(FirstWord(line), ":")

\* the origin of the line, decoded
OriginOf(line) == to_unicode(From(FirstWord(line), 1))

\* tok is nick!ident@host, the '!' at p and the '@' at q: a nick without
\* '!', an ident without '@' and a host, none of them empty
IsMask(tok, p, q) ==
  /\ 1 < p /\ p + 1 < q /\ q < Len(tok)
  /\ tok[p] = "!" /\ tok[q] = "@"
  /\ \A k \in 1..(p - 1) : tok[k] # "!"
  /\ \A k \in (p + 1)..(q - 1) : tok[k] # "@"

\* the origin the message of the step has
Yielded == cur'.msg.umask

\* run_loop reads a line and hands it to _process_message
ReadsLine == pc = "read" /\ nread' = nread + 1

\* C21: a line that begins with an origin nick!ident@host yields an origin
\* with these three parts, an origin without '!' yields the whole token as
\* nick with empty ident and host, and a line without origin yields none
C21_OriginIsTheMask ==
  [][ReadsLine =>
       LET line == lastRead'.txt
           tok == OriginOf(line)
       IN  /\ HasOrigin(line) =>
                \A p, q \in 1..Len(tok) :
                   IsMask(tok, p, q) =>
                     /\ pc' = "callback"
                     /\ Yielded.some
                     /\ Yielded.nick = SubSeq(tok, 1, p - 1)
                     /\ Yielded.ident = SubSeq(tok, p + 1, q - 1)
                     /\ Yielded.host = SubSeq(tok, q + 1, Len(tok))
           /\ HasOrigin(line) /\ "!" \notin Chars(tok) =>
                /\ pc' = "callback"
                /\ Yielded.some
                /\ Yielded.nick = tok /\ Yielded.ident = <<>> /\ Yielded.host = <<>>
           /\ ~HasOrigin(line) => pc' = "callback" /\ ~Yielded.some]_vars


\* the keys of the registry
Nicks(d) == DOMAIN d.map

\* C28: the origin of a line read resolves, for a nick of the registry, to
\* the User registered, whose ident is kept when it is known, whose host
\* becomes the mask's when the mask has one, whose ident and host are kept
\* when the mask has none, no User being created; for another nick one User
\* with the mask's nick, ident and host is created, and registered
C28_ResolvesToOneUser ==
  [][ReadsLine /\ HasOrigin(lastRead'.txt) =>
       LET um == maskRegex(OriginOf(lastRead'.txt))
       IN  IF NormalizedDict_contains(users, um.nick)
           THEN LET u == NormalizedDict_getitem(users, um.nick)
                IN  /\ users' = users
                    /\ Len(heap') = Len(heap)
                    /\ pc' = "callback" => Yielded.user = u
                    /\ heap[u].ident # <<>> => heap'[u].ident = heap[u].ident
                    /\ um.host # <<>> => heap'[u].host = um.host
                    /\ um.ident = <<>> => heap'[u].ident = heap[u].ident
                    /\ um.host = <<>> => heap'[u].host = heap[u].host
                    /\ \A v \in DOMAIN heap : v # u => heap'[v] = heap[v]
           ELSE /\ Len(heap') = Len(heap) + 1
                /\ \A v \in DOMAIN heap : heap'[v] = heap[v]
                /\ Cardinality(Nicks(users')) = Cardinality(Nicks(users)) + 1
                /\ NormalizedDict_getitem(users', um.nick) = Len(heap')
                /\ heap'[Len(heap')].nick = um.nick
                /\ heap'[Len(heap')].ident = um.ident
                /\ heap'[Len(heap')].host = um.host]_vars

\* a!i@h was known and a!j@g has been read: the User has kept its ident and
\* taken the new host
C28_HostFollows ==
  /\ lastRead.txt = Line(<<<<":">> \o Mask.other, Cmd.PING>>)
  /\ \E u \in DOMAIN heap :
        /\ NormalizedDict_contains(users, Mask.nick)
        /\ NormalizedDict_getitem(users, Mask.nick) = u
        /\ heap[u].ident = <<"i">>
        /\ heap[u].host = <<"g">>


(***************************************************************************)
(* Composition of styled text: Tags.<Name>(value), value + value.  The     *)
(* Chunk objects live in a heap, chunks, and a ChunkList is the sequence   *)
(* of the references it holds in self.children.                            *)
(***************************************************************************)
\* values the program composes, at most
MaxTags == 3

\* Tags.__getattr__(name): the colors and formats the closure of Tag holds
Tag ==
  [ Bold    |-> [fgcolor |-> <<>>, bgcolor |-> <<>>, formats |-> {"bold"}],
    Red     |-> [fgcolor |-> color_code(4), bgcolor |-> <<>>, formats |-> {}],
    RedBlue |-> [fgcolor |-> color_code(4), bgcolor |-> color_code(2), formats |-> {}],
    Reset   |-> [fgcolor |-> <<>>, bgcolor |-> <<>>, formats |-> {"reset"}],
    Uncolor |-> [fgcolor |-> <<>>, bgcolor |-> <<>>, formats |-> {"uncolor"}] ]

\* lines 266-274 of ChunkList.__init__: self.children takes the Chunk objects
\* of a child that is a ChunkList (item.refs), and a new Chunk for a child
\* that is a str (item.text); st is [chunks, refs]
RECURSIVE init_children(_, _)
init_children(items, st) ==
  IF items = <<>> THEN st
  ELSE init_children(Tail(items),
                     IF Head(items).kind = "list"
                     THEN [st EXCEPT !.refs = @ \o Head(items).refs]
                     ELSE [chunks |-> Append(st.chunks, Chunk(Head(items).text)),
                           refs |-> Append(st.refs, Len(st.chunks) + 1)])

\* lines 277-282: one child takes the colors it has not, unless it is reset
\* or uncolor, and the tags
init_child(chunk, fgcolor, bgcolor, tags) ==
  [chunk EXCEPT
     !.fgcolor = IF chunk.tags \cap Transient = {} /\ @ = <<>> THEN fgcolor ELSE @,
     !.bgcolor = IF chunk.tags \cap Transient = {} /\ @ = <<>> THEN bgcolor ELSE @,
     !.tags = @ \cup tags]

\* lines 276-282: the loop over self.children, from the k-th on
RECURSIVE init_colors(_, _, _, _, _, _)
init_colors(chunks, refs, k, fgcolor, bgcolor, tags) ==
  IF k > Len(refs) THEN chunks
  ELSE init_colors([chunks EXCEPT ![refs[k]] = init_child(@, fgcolor, bgcolor, tags)],
                   refs, k + 1, fgcolor, bgcolor, tags)

ChunkList_colored(st, fgcolor, bgcolor, tags) ==
  [chunks |-> init_colors(st.chunks, st.refs, 1, fgcolor, bgcolor, tags), refs |-> st.refs]

\* ChunkList.__init__(children, fgcolor, bgcolor, tags), with the Chunk
\* objects that exist: the heap as it leaves it and the new list's children
ChunkList(chunks, items, fgcolor, bgcolor, tags) ==
  ChunkList_colored(init_children(items, [chunks |-> chunks, refs |-> <<>>]),
                    fgcolor, bgcolor, tags)

\* Tag.__call__(value), line 246
Tag_call(chunks, tag, value) ==
  ChunkList(chunks, <<value>>, tag.fgcolor, tag.bgcolor, tag.formats)

\* ChunkList.__add__ and __radd__
ChunkList_add(chunks, lhs, rhs) == ChunkList(chunks, <<lhs, rhs>>, <<>>, <<>>, {})

\* the values the program has composed
TagCalls == {i \in DOMAIN ops : ops[i].op \in {"tag", "add"}}

\* the Chunk objects that exist
Chunks == IF ops = <<>> THEN <<>> ELSE ops[Len(ops)].chunks

\* a str, and the value the i-th composition returned, as a child
Str(text) == [kind |-> "str", text |-> text]
Value(i) == [kind |-> "list", refs |-> ops[i].out]

\* the program composes a value; r is the ChunkList made
Composed(op, args, r) ==
  /\ pc = "init"
  /\ handlers = <<>>
  /\ Cardinality(TagCalls) < MaxTags
  /\ ops' = Append(ops, [op |-> op, args |-> args, exc |-> FALSE, out |-> r.refs,
                         chunks |-> r.chunks])
  /\ UNCHANGED <<ircVars, envVars, mainVars, threads, attempts, histVars>>

\* Tags.<name>(value)
CallTag(name, value) == Composed("tag", <<name, value>>, Tag_call(Chunks, Tag[name], value))

\* lhs + rhs, one of them a ChunkList
CallAdd(lhs, rhs) == Composed("add", <<lhs, rhs>>, ChunkList_add(Chunks, lhs, rhs))

\* the texts the program styles
TagTexts == {<<"a">>, <<"1">>, <<>>}

\* the operands of a composition: a str, or a value composed before
Operands == {Str(t) : t \in TagTexts} \cup {Value(i) : i \in TagCalls}

NextTags ==
  \/ \E name \in DOMAIN Tag, value \in Operands : CallTag(name, value)
  \/ \E lhs \in Operands, i \in TagCalls : CallAdd(lhs, Value(i))
  \/ \E i \in TagCalls, rhs \in Operands : CallAdd(Value(i), rhs)

SpecTags == InitSync /\ [][NextTags]_vars

\* the children of a ChunkList, as the Chunk objects are in chunks
Deref(refs, chunks) == [k \in DOMAIN refs |-> chunks[refs[k]]]

\* str(value) for the value the i-th composition returned, when the j-th has
\* been made
Serialized(i, j, order) == to_string(Deref(ops[i].out, ops[j].chunks), TRUE, order)

\* str(Tags.parse(s))
Reserialized(s, order) == to_string(Tags_parse(s).chunks, TRUE, order)

\* C22: for every value t the program has composed, Tags.parse(str(t))
\* succeeds and str of its result is str(t)
C22_RoundTrip ==
  \A i \in TagCalls : \A order \in Orders :
     /\ ~Tags_parse(Serialized(i, i, order)).exc
     /\ Reserialized(Serialized(i, i, order), order) = Serialized(i, i, order)

\* C30: str of a value the program has composed is the same after every
\* later composition as it was when the value was made
C30_CompositionKeepsOriginal ==
  \A i, j \in TagCalls : \A order \in Orders :
     i < j => Serialized(i, j, order) = Serialized(i, i, order)


\* the User registered under nick, 0 when none is
Registered_as(d, nick) ==
  IF NormalizedDict_contains(d, nick) THEN NormalizedDict_getitem(d, nick) ELSE 0

\* the modes in #c of the User u, a member of #c
ModesOf(h, u) == NormalizedDict_getitem(h[u].channels, ListTarget)

\* C23: when the message of a structural line is handed to the
\* on_server_<command> callbacks, the registry and the memberships are
\* already what the line makes them: the User that JOINs is in the channel,
\* the User that PARTs or is KICKed is not, the User that QUITs is deleted
\* and unregistered, the User of a NICK is registered under its new nick, the
\* member named by MODE +o has the mode o, the Users of a NAMES reply are in
\* the channel with the modes of their prefixes
C23_MutationBeforeCallback ==
  [][/\ LineRead(TrackLine.JoinA) =>
          pc' = "callback" /\ Member(heap', Registered_as(users', <<"a">>))
     /\ LineRead(TrackLine.PartB) \/ LineRead(TrackLine.KickB) =>
          pc' = "callback" /\ ~Member(heap', Registered_as(users', <<"b">>))
     /\ LineRead(TrackLine.QuitA) =>
          /\ pc' = "callback"
          /\ heap'[cur'.msg.umask.user].deleted
          /\ Registered_as(users', <<"a">>) = 0
     /\ LineRead(TrackLine.NickAB) =>
          /\ pc' = "callback"
          /\ Registered_as(users', <<"b">>) = cur'.msg.umask.user
          /\ heap'[cur'.msg.umask.user].nick = <<"b">>
     /\ LineRead(TrackLine.ModeB) /\ Member(heap, Registered_as(users, <<"b">>)) =>
          /\ pc' = "callback"
          /\ "o" \in ModesOf(heap', Registered_as(users', <<"b">>))
     /\ LineRead(TrackLine.Names) =>
          /\ pc' = "callback"
          /\ Member(heap', Registered_as(users', <<"a">>))
          /\ Member(heap', Registered_as(users', <<"b">>))
          /\ ModesOf(heap', Registered_as(users', <<"a">>)) = {"o"}]_vars


\* the dispatch of the message at hand ends in this step, by a return or by
\* an exception
DispatchEnds == cur.n # 0 /\ cur'.n = 0

\* C24: when the dispatch of an event ends, the callback of every instance
\* of ToCall has been invoked for it, whether or not one of them raised
C24_LaterHandlersStillCalled == [][DispatchEnds => calls' = ToCall]_vars


\* the threads that are in a read of the socket, or between two reads of a
\* get_list: the thread of run_loop, and the workers
Readers ==
  (IF pc \in {"read", "drain"} THEN {Main} ELSE {})
    \cup {t \in DOMAIN threads : threads[t].pc = "drain"}

\* C25: one thread at most reads the socket, and no get_list reads it on
\* another thread than that of run_loop
C25_SingleReader == Cardinality(Readers) <= 1 /\ Readers \subseteq {Main}


(***************************************************************************)
(* Channel modes: MODE lines for prefix modes and for list modes, under    *)
(* the features the server has advertised                                  *)
(***************************************************************************)
OtherTarget == <<"#", "d">>

ChanModeLine ==
  [ \* :b JOIN #d
    JoinOther |-> Line(<<<<":", "b">>, Cmd.JOIN, OtherTarget>>),
    \* :a MODE #c -o b
    Deop |-> Line(<<<<":", "a">>, Cmd.MODE, ListTarget, <<"-", "o">>, <<"b">>>>),
    \* :a MODE #c +ov g b
    Two |-> Line(<<<<":", "a">>, Cmd.MODE, ListTarget, <<"+", "o", "v">>, <<"g">>, <<"b">>>>),
    \* :a MODE #c +b x
    Ban |-> Line(<<<<":", "a">>, Cmd.MODE, ListTarget, <<"+", "b">>, <<"x">>>>),
    \* :a MODE #c +q x
    Quiet |-> Line(<<<<":", "a">>, Cmd.MODE, ListTarget, <<"+", "q">>, <<"x">>>>),
    \* :s 005 m CHANMODES=bq,k,l,p :x
    Lists |-> Line(<<<<":", "s">>, Numeric.c005, MyNick,
                     Feature.CHANMODES \o <<"=", "b", "q", ",", "k", ",", "l", ",", "p">>,
                     <<":", "x">>>>),
    \* :s 005 m CHANMODES=bq,k,l,p MAXLIST=bq:10 :x
    Covered |-> Line(<<<<":", "s">>, Numeric.c005, MyNick,
                       Feature.CHANMODES \o <<"=", "b", "q", ",", "k", ",", "l", ",", "p">>,
                       Feature.MAXLIST \o <<"=", "b", "q", ":", "1", "0">>,
                       <<":", "x">>>>) ]

ChanModeLines ==
  {TrackLine.JoinB, TrackLine.ModeB, ChanModeLine.JoinOther, ChanModeLine.Deop, ChanModeLine.Two,
   ChanModeLine.Ban, ChanModeLine.Quiet, ChanModeLine.Lists, ChanModeLine.Covered}

NextChanModes ==
  \/ LoadModule({"h_ok", "h_raise"})
  \/ Connect
  \/ Ident
  \/ Replay
  \/ Reset
  \/ \E txt \in ChanModeLines : Read(txt)
  \/ ReadNone
  \/ Callback
  \/ Post
  \/ \E u \in 1..MaxUsers : CallJoined(u)

SpecChanModes == InitSync /\ [][NextChanModes]_vars

\* the step that ends the processing of a MODE message for a channel
ModeEnds ==
  /\ DispatchEnds
  /\ cur.msg.cmd = Cmd.MODE
  /\ cur.msg.umask.some
  /\ Len(cur.msg.params) > 2
  /\ is_channel(serverconf, cur.msg.params[1])

\* the changes that the MODE message being processed lists
Changes == parse_modes(serverconf, cur.msg.params[2], From(cur.msg.params, 2)).out

\* the places of Changes that change a prefix mode of a member of the channel
Named ==
  {i \in DOMAIN Changes :
     /\ Changes[i].mode \in prefixes_modes(serverconf)
     /\ Registered_as(users, Changes[i].value) \in DOMAIN heap
     /\ is_in([heap |-> heap], Registered_as(users, Changes[i].value), cur.msg.params[1])}

\* the modes of the User u in the channel chan, of which it is a member
modes_in(h, u, chan) == NormalizedDict_getitem(h[u].channels, chan)

\* C26: at the end of the processing of a MODE message for a channel, each
\* member that a prefix-mode change names has the letter in its mode set of
\* that channel after '+' and has it not after '-', the other letters of
\* that set are as before, and so is every other mode set
C26_PrefixModesFollow ==
  [][ModeEnds =>
      /\ \A i \in Named :
           LET u == Registered_as(users, Changes[i].value)
               chan == cur.msg.params[1]
           IN  /\ is_in([heap |-> heap'], u, chan)
               /\ (Changes[i].mode \in modes_in(heap', u, chan)) = Changes[i].add
               /\ modes_in(heap', u, chan) \ {Changes[j].mode : j \in Named}
                    = modes_in(heap, u, chan) \ {Changes[j].mode : j \in Named}
      /\ \A u \in DOMAIN heap :
           /\ u \in DOMAIN heap'
           /\ \A k \in DOMAIN heap[u].channels.map :
                (\A i \in Named : ~(Registered_as(users, Changes[i].value) = u
                                      /\ irc_lower(cur.msg.params[1]) = k))
                  => /\ k \in DOMAIN heap'[u].channels.map
                     /\ heap'[u].channels.data[heap'[u].channels.map[k]]
                          = heap[u].channels.data[heap[u].channels.map[k]]]_vars


\* the MODE message being processed changes list modes only (the modes of
\* the first group of CHANMODES)
ListModesOnly ==
  \A i \in DOMAIN Changes : Changes[i].mode \in chan_modes(serverconf)[1]

\* C27: the processing of a MODE message that changes list modes only ends
\* with no User created or registered and with every mode set as it was
C27_ListModesLeaveUsers ==
  [][ModeEnds /\ ListModesOnly =>
      /\ Len(heap') = Len(heap)
      /\ users' = users
      /\ \A u \in DOMAIN heap : heap'[u].channels = heap[u].channels]_vars


(***************************************************************************)
(* send_multi: the logical lines of the text                               *)
(***************************************************************************)
\* the logical lines of a text: what its newlines separate
Logical(text) == split(text, LF)

\* a line that is blank after trimming
Blank(line) == strip(line, {SP}) = <<>>

\* the text of a call of send_multi has no format code and fits the budget
\* of one physical line, so each of its logical lines fits one too
ShortPlain(o) ==
  /\ Chars(o.args[2]) \cap format_codes = {}
  /\ Len(o.args[2]) <= LineLimit - Len(o.out.prefix)

\* C29: when send_multi returns, line breaking enabled, for a text without
\* format codes that fits one physical line, it has sent one physical line
\* for each logical line that is not blank after trimming, with that line as
\* its last parameter, and none for a blank one
C29_BlankLinesDropped ==
  \A i \in DOMAIN ops :
    ops[i].op = "send_multi" /\ ~ops[i].exc /\ ~ops[i].out.hang /\ ShortPlain(ops[i]) =>
      LET kept == SelectSeq(Logical(ops[i].args[2]), LAMBDA l : ~Blank(l))
      IN  ops[i].out.lines
            = [j \in 1..Len(kept) |-> ops[i].out.prefix \o <<SP, ":">> \o kept[j]]


(***************************************************************************)
(* Derived callbacks: on_self_<command>, and those of PRIVMSG              *)
(***************************************************************************)
Hi == <<":", "h", "i">>

EventLine ==
  [ \* :m JOIN #c
    JoinMe |-> Line(<<<<":", "m">>, Cmd.JOIN, ListTarget>>),
    \* :M JOIN #c
    JoinUpper |-> Line(<<<<":", "M">>, Cmd.JOIN, ListTarget>>),
    \* :m NICK n
    NickMe |-> Line(<<<<":", "m">>, Cmd.NICK, <<"n">>>>),
    \* :m MODE m +i
    ModeMe |-> Line(<<<<":", "m">>, Cmd.MODE, MyNick, <<"+", "i">>>>),
    \* :m PRIVMSG #c :hi
    FromMe |-> Line(<<<<":", "m">>, Cmd.PRIVMSG, ListTarget, Hi>>),
    \* :a PRIVMSG #c :hi
    ToChannel |-> Line(<<<<":", "a">>, Cmd.PRIVMSG, ListTarget, Hi>>),
    \* :a PRIVMSG M :hi
    ToMe |-> Line(<<<<":", "a">>, Cmd.PRIVMSG, <<"M">>, Hi>>),
    \* :a PRIVMSG @#c :hi
    ToOps |-> Line(<<<<":", "a">>, Cmd.PRIVMSG, <<"@">> \o ListTarget, Hi>>),
    \* :a PRIVMSG #c :\1ACTION x\1
    Action |-> Line(<<<<":", "a">>, Cmd.PRIVMSG, ListTarget,
                      <<":", SOH>> \o Cmd.CTCP_ACTION, <<"x", SOH>>>>),
    \* :a PRIVMSG m :\1PING\1
    Request |-> Line(<<<<":", "a">>, Cmd.PRIVMSG, MyNick, <<":", SOH>> \o Cmd.PING \o <<SOH>>>>),
    \* :a PRIVMSG #c
    NoText |-> Line(<<<<":", "a">>, Cmd.PRIVMSG, ListTarget>>) ]

EventLines ==
  {EventLine.JoinMe, EventLine.JoinUpper, EventLine.NickMe, EventLine.ModeMe, EventLine.FromMe,
   EventLine.ToChannel, EventLine.ToMe, EventLine.ToOps, EventLine.Action, EventLine.Request,
   EventLine.NoText}

NextEvents ==
  \/ LoadModule({"h_ok", "h_raise"})
  \/ Connect
  \/ Ident
  \/ Replay
  \/ Reset
  \/ \E txt \in EventLines : Read(txt)
  \/ ReadNone
  \/ Callback
  \/ Post
  \/ AfterLoop

SpecEvents == InitSync /\ [][NextEvents]_vars

\* _callback has visited every instance for on_server_<command>, and what
\* follows it in _process_message runs now
PostRuns == pc = "callback" /\ pending = <<>> /\ DispatchEnds

\* the callbacks dispatched by what follows on_server_<command>, in order
Derived == process_post(W, cur.msg).cbs

\* the origin of the message being processed is this client
FromSelf == cur.msg.umask.some /\ is_me(W, cur.msg.umask.nick)

\* C31: the processing of a message whose origin is this client never ends
\* without on_self_<command> having been dispatched
C31_SelfCallbackDispatched ==
  [][DispatchEnds /\ FromSelf =>
       PostRuns /\ (Event.on_self_X \o irc_lower(cur.msg.cmd)) \in Range(Derived)]_vars


\* the message being processed is a PRIVMSG with its target and its text
IsPrivmsg == cur.msg.cmd = Cmd.PRIVMSG /\ Len(cur.msg.params) >= 2

\* what C32 expects after on_server_privmsg for the target and the text
PrivmsgCallbacks(target, text) ==
  IF is_ctcp(text)
  THEN IF ctcp_name(text) = Cmd.CTCP_ACTION THEN {<<Event.on_action>>}
       ELSE {<<Event.on_ctcp_request,
               Event.on_ctcp_X \o irc_lower(ctcp_name(text)) \o Event.sfx_request>>}
  ELSE (IF is_channel(serverconf, target)
        THEN {<<Event.on_message, Event.on_channel_message>>} ELSE {})
         \cup (IF is_me(W, target)
               THEN {<<Event.on_message, Event.on_private_message>>} ELSE {})

\* C32: the processing of a PRIVMSG ends after on_server_privmsg and then,
\* for a text not wrapped in \x01, on_message and one of on_channel_message
\* and on_private_message, for a CTCP text, on_action or on_ctcp_request and
\* on_ctcp_<verb>_request, and nothing else
C32_PrivmsgCallbacks ==
  [][DispatchEnds /\ IsPrivmsg =>
       /\ PostRuns
       /\ CallbackName = Event.on_server_X \o <<"p", "r", "i", "v", "m", "s", "g">>
       /\ PrivmsgCallbacks(cur.msg.params[1], cur.msg.params[2]) = {Derived}]_vars


\* C33: no line read from the socket is handed to _process_message twice
C33_ProcessedAtMostOnce ==
  \A i, j \in DOMAIN dispatched : dispatched[i] = dispatched[j] => i = j


\* what the processing of the current message does to the registry and to
\* the Users once the on_server_<command> callbacks have returned
Mutated == process_post(W, cur.msg).W.R

\* C34: the processing of a NICK, MODE or NAMES-reply message ends with the
\* registry and the Users changed as the message changes them, whatever its
\* on_server_<command> callbacks did
C34_MutationsDespiteHandlers ==
  [][DispatchEnds /\ cur.msg.cmd \in {Cmd.NICK, Cmd.MODE, Numeric.namreply} =>
       users' = Mutated.users /\ heap' = Mutated.heap]_vars


(***************************************************************************)
(* PING and PONG on a connection that stays open                           *)
(***************************************************************************)
\* the server ends the list that get_list on the main thread waits for
EndOfList ==
  /\ pc = "drain"
  /\ nread' = nread + 1
  /\ DrainStep(Entry(nread + 1, ConnLine.End))
  /\ UNCHANGED <<thread_callbacks, connected, enabled, myself, serverconf, handlers,
                 send_lock, reconnect_obj, sk, wire, ri, threads, ops, attempts,
                 dispatched, calls, snapshot, rawlog, lastRead>>

\* the server sends PING :t, at any time, and ends the lists asked for
NextPing ==
  \/ LoadModule({"h_ok", "h_raise", "h_list"})
  \/ Connect
  \/ Ident
  \/ Read(ConnLine.Ping)
  \/ Drain(ConnLine.Ping)
  \/ EndOfList
  \/ LoopStep

SpecPing == InitSync /\ [][NextPing]_vars

\* the thread of run() is scheduled as long as it can run, and the server
\* ends every list.  Replay can take a step whenever pc = "replay" and
\* EndOfList whenever pc = "drain": their weak fairness is written with
\* these conditions in the place of ENABLED
FairPing ==
  /\ SpecPing
  /\ WF_vars(Reset)
  /\ WF_vars(Callback)
  /\ WF_vars(Post)
  /\ ([]<>(pc # "replay") \/ []<><<Replay>>_vars)
  /\ ([]<>(pc # "drain") \/ []<><<EndOfList>>_vars)

\* the PING lines read so far: those handed to _process_message and those
\* get_list has read
PingsRead == Cardinality(drained \cup Range(dispatched))

\* the PONG :t lines handed to raw() so far
Pongs == Cardinality({i \in DOMAIN rawlog : rawlog[i] = send(<<Cmd.PONG>>, <<"t">>).line})

\* C35: there are never more PONGs sent than PINGs read, and the k-th PING
\* read leads to a k-th PONG
C35_PingAnswered ==
  /\ [](Pongs <= PingsRead)
  /\ \A k \in 1..MaxReads : (PingsRead >= k) ~> (Pongs >= k)


(***************************************************************************)
(* send_multi on a worker thread, beside the PONGs of run_loop             *)
(***************************************************************************)
\* a send_multi that would not take the lock around its loop
send_multi_unlocked(lock, t) == lock

\* line 778: with self.send_lock, around the loop that calls raw()
send_multi_lock(lock, t) == [owner |-> t, count |-> lock.count + 1]

\* the lines of send_multi('PRIVMSG', '#c', last='a\n\nb'), which the
\* callback of t_multi calls
MultiLines ==
  send_multi(<<Cmd.PRIVMSG, ListTarget>>, MultiText.gap, FALSE, CHOOSE o \in Orders : TRUE).lines

\* send_multi on a worker thread has made its lines and enters the with
\* statement
ThreadMultiBegin(t) ==
  /\ threads[t].pc = "body"
  /\ body(threads[t].inst) = "send_multi"
  /\ send_lock_free(send_lock, t)
  /\ send_lock' = send_multi_lock(send_lock, t)
  /\ threads' = [threads EXCEPT ![t].pc = "multi", ![t].l = MultiLines]
  /\ UNCHANGED <<thread_callbacks, connected, enabled, bans, users, myself, serverconf,
                 handlers, waiting_queue, reconnect_obj, sk, heap, envVars, mainVars, ops,
                 attempts, histVars>>

\* lines 779-780: one turn of the loop, raw() takes the lock, writes the line
\* and releases the lock
ThreadMultiRaw(t) ==
  /\ threads[t].pc = "multi"
  /\ threads[t].l # <<>>
  /\ send_lock_free(send_lock, t)
  /\ wire' = wire \o Head(threads[t].l) \o CRLF
  /\ rawlog' = Append(rawlog, Head(threads[t].l))
  /\ threads' = [threads EXCEPT ![t].l = Tail(@)]
  /\ UNCHANGED <<ircVars, nread, mainVars, ops, attempts, dispatched, calls, snapshot,
                 drained, lastRead, raised>>

\* the with statement is left: it releases what it took; send_multi and the
\* callback return, which ends the thread
ThreadMultiEnd(t) ==
  /\ threads[t].pc = "multi"
  /\ threads[t].l = <<>>
  /\ send_lock' = IF send_lock.owner # t THEN send_lock
                  ELSE IF send_lock.count <= 1 THEN [owner |-> -1, count |-> 0]
                  ELSE [send_lock EXCEPT !.count = @ - 1]
  /\ threads' = [threads EXCEPT ![t] = IdleThread]
  /\ UNCHANGED <<thread_callbacks, connected, enabled, bans, users, myself, serverconf,
                 handlers, waiting_queue, reconnect_obj, sk, heap, envVars, mainVars, ops,
                 attempts, histVars>>

NextMultiThreads ==
  \/ LoadModule({"t_multi"})
  \/ Connect
  \/ Ident
  \/ Read(ConnLine.Ping)
  \/ ReadNone
  \/ LoopStep
  \/ \E t \in 1..MaxThreads : ThreadMultiBegin(t)
  \/ \E t \in 1..MaxThreads : ThreadMultiRaw(t)
  \/ \E t \in 1..MaxThreads : ThreadMultiEnd(t)

SpecMultiThreads == InitThreads /\ [][NextMultiThreads]_vars

\* the lines the socket has been given, each with its CR, and what follows
\* the last LF
WireLines == split(wire, LF)

\* C36: on the wire, the first line of a send_multi call is followed by the
\* other lines of the call, in order, with no line of another thread in
\* between
C36_MultiLinesContiguous ==
  \A i \in DOMAIN WireLines :
    WireLines[i] = MultiLines[1] \o <<CR>> =>
      \A j \in 2..Len(MultiLines) :
        i + j - 1 < Len(WireLines) => WireLines[i + j - 1] = MultiLines[j] \o <<CR>>

\* run_loop has a PONG to send while a worker thread is between two lines of
\* its send_multi call
C36_PongWaits ==
  /\ pc = "callback"
  /\ pending = <<>>
  /\ cur.msg.cmd = Cmd.PING
  /\ \E t \in DOMAIN threads :
       /\ threads[t].pc = "multi"
       /\ Len(threads[t].l) \in 1..(Len(MultiLines) - 1)


\* C37: every call of send_multi returns or raises: none goes on for ever
C37_SendMultiTerminates ==
  \A i \in DOMAIN ops : ops[i].op = "send_multi" => ~ops[i].out.hang


\* how many times x is in the sequence s
Times(s, x) == Cardinality({k \in DOMAIN s : s[k] = x})

\* C38: every call of set_modes returns or raises, and when it returns each
\* mode change passed to it is in the MODE commands sent as many times as it
\* was passed: none is lost and none is sent twice
C38_SetModesTerminates ==
  \A i \in DOMAIN ops :
    ops[i].op = "set_modes" =>
      /\ ~ops[i].out.hang
      /\ ~ops[i].exc =>
           \A x \in Range(ops[i].args[2]) \cup Range(Children(ops[i].out.batches)) :
             Times(Children(ops[i].out.batches), x) = Times(ops[i].args[2], x)


\* C39: the connection that a reconnect of run() opens has the TLS setting
\* of the connection that was lost: one opened with TLS is not opened again
\* in clear text
C39_ReconnectKeepsTLS ==
  [][pc = "reconnect" /\ pc' = "replay" => sk'.ssl = sk.ssl]_vars

=============================================================================

